---- MODULE Spec2Model ----
(***************************************************************************)
(* Verification model of the quran-multi-aligner alignment core:           *)
(*   - special_segments.py   (Levenshtein, opening-invocation detection)   *)
(*   - phoneme_matcher.py    (word-boundary DP, align_segment)             *)
(*   - alignment_pipeline.py (run_phoneme_matching state machine)          *)
(*   - pipeline.py           (_run_post_vad_pipeline result assembly)      *)
(*   - ui/segments.py        (check_undersegmented, is_end_of_verse)       *)
(*                                                                         *)
(* Numeric conventions.  Python floats are modelled by exact integers:     *)
(*   edit costs are in tenths        (COST_DELETION 0.8  -> 8),            *)
(*   thresholds / prior in per-mille (MAX_EDIT_DISTANCE 0.25 -> 250),      *)
(*   a normalised distance is the pair (cost, denom) = cost/(10*denom),    *)
(*   times are in whole seconds.                                           *)
(* Phonemes are strings; the IPA symbols of the source are transliterated  *)
(* to ASCII one-to-one, so equality of phonemes is preserved.              *)
(***************************************************************************)
EXTENDS Integers, Sequences, FiniteSets, TLC

\* ------------------------------------------------------------------------
\* config.py
\* ------------------------------------------------------------------------
COST_SUBSTITUTION == 10
COST_INSERTION == 10
COST_DELETION == 8
LOOKBACK_WORDS == 30
LOOKAHEAD_WORDS == 10
MAX_EDIT_DISTANCE == 250
MAX_SPECIAL_EDIT_DISTANCE == 350
MAX_TRANSITION_EDIT_DISTANCE == 450
START_PRIOR_WEIGHT == 5
RETRY_LOOKBACK_WORDS == 70
RETRY_LOOKAHEAD_WORDS == 40
MAX_EDIT_DISTANCE_RELAXED == 500
MAX_CONSECUTIVE_FAILURES == 2
ANCHOR_SEGMENTS == 5
NGRAM_SIZE == 5
UNDERSEG_MIN_WORDS == 25
UNDERSEG_MIN_AYAH_SPAN == 2
UNDERSEG_MIN_DURATION == 15

\* float('inf'): absorbing under addition, larger than every finite cost
INF == 1000000

Plus(a, c) == IF a >= INF THEN INF ELSE a + c

Max2(a, b) == IF a >= b THEN a ELSE b

Min2(a, b) == IF a <= b THEN a ELSE b

Abs(a) == IF a < 0 THEN 0 - a ELSE a

\* Python slice s[lo:hi] (0-based, hi exclusive) of a sequence
Slice(s, lo, hi) == IF hi <= lo THEN << >> ELSE SubSeq(s, lo + 1, hi)

\* ------------------------------------------------------------------------
\* special_segments.py : Levenshtein distance
\* ------------------------------------------------------------------------
\* Loops "for j in range(lo, hi + 1)" are unrolled by halving the range, which
\* visits j in increasing order and keeps the evaluation depth logarithmic.

\* body of the inner loop: curr[j] from prev[j-1], prev[j], curr[j-1]
LevCell(j, acc, prev, a, seq2) ==
    Append(acc, IF a = seq2[j] THEN prev[j]
                ELSE 1 + Min2(prev[j + 1], Min2(acc[j], prev[j])))

RECURSIVE LevRow(_, _, _, _, _, _)
LevRow(lo, hi, acc, prev, a, seq2) ==
    IF lo > hi THEN acc
    ELSE IF lo = hi THEN LevCell(lo, acc, prev, a, seq2)
    ELSE LET mid == (lo + hi) \div 2
             left == LevRow(lo, mid, acc, prev, a, seq2)
         IN  IF Len(left) = mid + 1
             THEN LevRow(mid + 1, hi, left, prev, a, seq2)
             ELSE left

RECURSIVE LevRows(_, _, _, _, _)
\* outer loop: rows lo..hi, starting from the row "prev"
LevRows(lo, hi, prev, seq1, seq2) ==
    IF lo > hi THEN prev
    ELSE IF lo = hi THEN LevRow(1, Len(seq2), << lo >>, prev, seq1[lo], seq2)
    ELSE LET mid == (lo + hi) \div 2
             upper == LevRows(lo, mid, prev, seq1, seq2)
         IN  IF Len(upper) = Len(seq2) + 1
             THEN LevRows(mid + 1, hi, upper, seq1, seq2)
             ELSE upper

levenshtein_distance(seq1, seq2) ==
    IF Len(seq1) = 0 THEN Len(seq2)
    ELSE IF Len(seq2) = 0 THEN Len(seq1)
    ELSE LevRows(1, Len(seq1), [k \in 1..(Len(seq2) + 1) |-> k - 1], seq1, seq2)[Len(seq2) + 1]

\* phoneme_edit_distance as the pair (edit, max_len): the float edit/max_len.
\* Empty input gives 1.0, i.e. (1, 1).
phoneme_edit_distance(asr_phonemes, ref_phonemes) ==
    IF Len(asr_phonemes) = 0 \/ Len(ref_phonemes) = 0
    THEN [edit |-> 1, max_len |-> 1]
    ELSE [edit |-> levenshtein_distance(asr_phonemes, ref_phonemes),
          max_len |-> Max2(Len(asr_phonemes), Len(ref_phonemes))]

\* dist <= threshold (threshold in per-mille)
DistWithin(d, threshold) == 1000 * d.edit <= threshold * d.max_len

\* ------------------------------------------------------------------------
\* phoneme_matcher.py : substitution costs and the word-boundary DP
\* ------------------------------------------------------------------------
\* _SUBSTITUTION_COSTS: data/phoneme_sub_costs.json is absent, so the loader
\* returns the empty table and every unequal pair costs the default.
SUBSTITUTION_COSTS == [pair \in {} |-> 0]

\* the lookup of get_sub_cost in a table
SubCost(costs, p, r, default) ==
    IF p = r THEN 0
    ELSE IF <<p, r>> \in DOMAIN costs THEN costs[<<p, r>>]
    ELSE default

get_sub_cost(p, r, default) == SubCost(SUBSTITUTION_COSTS, p, r, default)

\* a start test that lets a match begin at any phoneme (a faulty variant of
\* is_start_boundary)
any_start(j, n, W) == j < n

\* R_phone_to_word is 0-based in the source: phoneme j is W[j + 1] here.
is_start_boundary(j, n, W) ==
    IF j >= n THEN FALSE
    ELSE IF j = 0 THEN TRUE
    ELSE W[j + 1] # W[j]

is_end_boundary(j, n, W) ==
    IF j = 0 THEN FALSE
    ELSE IF j = n THEN TRUE
    ELSE W[j + 1] # W[j]

\* row 0 of the DP: prev_cost / prev_start (column j is element j + 1)
DPInitRow(n, W) ==
    [cost  |-> [k \in 1..(n + 1) |-> IF is_start_boundary(k - 1, n, W) THEN 0 ELSE INF],
     start |-> [k \in 1..(n + 1) |-> IF is_start_boundary(k - 1, n, W) THEN k - 1 ELSE 0 - 1]]

\* body of the inner loop "for j in range(1, n + 1)"; acc holds
\* curr_cost / curr_start for columns 0..j-1
DPCell(j, acc, prev, p, R, cost_sub, cost_del, cost_ins) ==
    LET del_option == Plus(prev.cost[j + 1], cost_del)
        ins_option == Plus(acc.cost[j], cost_ins)
        sub_option == Plus(prev.cost[j], get_sub_cost(p, R[j], cost_sub))
        cell == IF sub_option <= del_option /\ sub_option <= ins_option
                THEN <<sub_option, prev.start[j]>>
                ELSE IF del_option <= ins_option
                     THEN <<del_option, prev.start[j + 1]>>
                     ELSE <<ins_option, acc.start[j]>>
    IN  [cost |-> Append(acc.cost, cell[1]), start |-> Append(acc.start, cell[2])]

RECURSIVE DPRow(_, _, _, _, _, _, _, _, _)
DPRow(lo, hi, acc, prev, p, R, cost_sub, cost_del, cost_ins) ==
    IF lo > hi THEN acc
    ELSE IF lo = hi THEN DPCell(lo, acc, prev, p, R, cost_sub, cost_del, cost_ins)
    ELSE LET mid == (lo + hi) \div 2
             left == DPRow(lo, mid, acc, prev, p, R, cost_sub, cost_del, cost_ins)
         IN  IF Len(left.cost) = mid + 1
             THEN DPRow(mid + 1, hi, left, prev, p, R, cost_sub, cost_del, cost_ins)
             ELSE left

\* body of the outer loop "for i in range(1, m + 1)": row i from row i-1
DPNextRow(i, prev, P, R, W, cost_sub, cost_del, cost_ins) ==
    LET col0 == IF is_start_boundary(0, Len(R), W)
                THEN [cost |-> << i * cost_del >>, start |-> << 0 >>]
                ELSE [cost |-> << INF >>, start |-> << 0 - 1 >>]
    IN  DPRow(1, Len(R), col0, prev, P[i], R, cost_sub, cost_del, cost_ins)

RECURSIVE DPRows(_, _, _, _, _, _, _, _, _)
DPRows(lo, hi, prev, P, R, W, cost_sub, cost_del, cost_ins) ==
    IF lo > hi THEN prev
    ELSE IF lo = hi THEN DPNextRow(lo, prev, P, R, W, cost_sub, cost_del, cost_ins)
    ELSE LET mid == (lo + hi) \div 2
             upper == DPRows(lo, mid, prev, P, R, W, cost_sub, cost_del, cost_ins)
         IN  IF Len(upper.cost) = Len(R) + 1
             THEN DPRows(mid + 1, hi, upper, P, R, W, cost_sub, cost_del, cost_ins)
             ELSE upper

NoCandidate == [found |-> FALSE, best_j |-> 0, j_start |-> 0, cost |-> INF, denom |-> 1, num |-> 0]

\* body of the candidate loop "for j in range(1, n + 1)" over the final row;
\* best.num / best.denom is best_score * 1000:
\*   score = dist/(10*denom) + prior_weight/1000 * |start_word - expected_word|
DPCandidate(j, best, last, m, W, expected_word, prior_weight) ==
    LET n == Len(W) IN
    IF ~is_end_boundary(j, n, W) \/ last.cost[j + 1] >= INF THEN best
    ELSE LET dist == last.cost[j + 1]
             j_start == last.start[j + 1]
             ref_len == j - j_start
             denom == Max2(m, Max2(ref_len, 1))
             start_word == IF j_start < n THEN W[j_start + 1] ELSE W[j]
             num == 100 * dist + prior_weight * Abs(start_word - expected_word) * denom
         IN  IF ~best.found \/ num * best.denom < best.num * denom
             THEN [found |-> TRUE, best_j |-> j, j_start |-> j_start,
                   cost |-> dist, denom |-> denom, num |-> num]
             ELSE best

RECURSIVE DPSelect(_, _, _, _, _, _, _, _)
DPSelect(lo, hi, best, last, m, W, expected_word, prior_weight) ==
    IF lo > hi THEN best
    ELSE IF lo = hi THEN DPCandidate(lo, best, last, m, W, expected_word, prior_weight)
    ELSE LET mid == (lo + hi) \div 2
             left == DPSelect(lo, mid, best, last, m, W, expected_word, prior_weight)
         IN  IF left.found \/ ~left.found
             THEN DPSelect(mid + 1, hi, left, last, m, W, expected_word, prior_weight)
             ELSE left

\* Returns (best_j, best_j_start, best_cost, best_norm_dist = cost/(10*denom))
align_with_word_boundaries(P, R, W, expected_word, prior_weight, cost_sub, cost_del, cost_ins) ==
    IF Len(P) = 0 \/ Len(R) = 0 THEN NoCandidate
    ELSE DPSelect(1, Len(R), NoCandidate,
                  DPRows(1, Len(P), DPInitRow(Len(R), W), P, R, W, cost_sub, cost_del, cost_ins),
                  Len(P), W, expected_word, prior_weight)

\* ------------------------------------------------------------------------
\* special_segments.py : canonical phoneme sequences
\* ------------------------------------------------------------------------
ISTIADHA_PHONEMES ==
    << "q", "a", "E", "u:", "dh", "u", "b", "i", "ll", "a:", "h", "i",
       "m", "i", "n", "a", "shsh", "a", "j", "T", "A:", "n", "i",
       "RR", "A", "zh", "i:", "m" >>

BASMALA_PHONEMES ==
    << "b", "i", "s", "m", "i", "ll", "a:", "h", "i", "RR", "A",
       "H", "m", "a:", "n", "i", "RR", "A", "H", "i:", "m" >>

COMBINED_PHONEMES == ISTIADHA_PHONEMES \o BASMALA_PHONEMES

\* ------------------------------------------------------------------------
\* phoneme_matcher.py : chapter references
\* ------------------------------------------------------------------------
\* Reference words as delivered by the phonemizer (external data).  Three
\* kinds of chapter are modelled: surah 2 is a long chapter (LongWords words,
\* so that both lookback windows are proper sub-ranges of it), every other
\* surah has the same three words in two ayahs.
W_A0 == << "k", "a", "l", "m" >>

W_A1 == << "d", "i", "n", "u" >>

W_A2 == << "s", "u", "r", "a" >>

W_FILL == << "x" >>

LongWords == RETRY_LOOKBACK_WORDS + 3

RefWord(ph, s, a, w) == [phonemes |-> ph, surah |-> s, ayah |-> a, word_num |-> w]

\* long chapter: ayah 2 is its last two words and begins with W_A0; counted
\* back from the word after that one, the word one beyond LOOKBACK_WORDS is
\* W_A2 and the word at RETRY_LOOKBACK_WORDS is W_A1; all others are fillers.
LongChapterWords(s) ==
    [k \in 1..LongWords |->
        RefWord(IF k = LongWords - 1 THEN W_A0
                ELSE IF k = LongWords - 1 - LOOKBACK_WORDS THEN W_A2
                ELSE IF k = LongWords - RETRY_LOOKBACK_WORDS THEN W_A1
                ELSE W_FILL,
                s, IF k <= LongWords - 2 THEN 1 ELSE 2,
                IF k <= LongWords - 2 THEN k ELSE k - (LongWords - 2))]

ShortChapterWords(s) ==
    << RefWord(W_A0, s, 1, 1), RefWord(W_A1, s, 1, 2), RefWord(W_A2, s, 2, 1) >>

MappingWords(s) == IF s = 2 THEN LongChapterWords(s) ELSE ShortChapterWords(s)

\* body of the loop of build_chapter_reference for word k (1-based here)
FlattenWord(k, words, acc) ==
    [flat_phonemes |-> acc.flat_phonemes \o words[k].phonemes,
     flat_phone_to_word |-> acc.flat_phone_to_word
           \o [x \in 1..Len(words[k].phonemes) |-> k - 1],
     word_phone_offsets |-> Append(acc.word_phone_offsets, Len(acc.flat_phonemes))]

RECURSIVE Flatten(_, _, _, _)
Flatten(lo, hi, words, acc) ==
    IF lo > hi THEN acc
    ELSE IF lo = hi THEN FlattenWord(lo, words, acc)
    ELSE LET mid == (lo + hi) \div 2
             left == Flatten(lo, mid, words, acc)
         IN  IF Len(left.word_phone_offsets) >= 0
             THEN Flatten(mid + 1, hi, words, left)
             ELSE left

\* the ChapterReference built from the flattened words
ChapterReference(surah_num, words, f) ==
    [surah |-> surah_num,
     words |-> words,
     num_words |-> Len(words),
     total_phones |-> Len(f.flat_phonemes),
     flat_phonemes |-> f.flat_phonemes,
     flat_phone_to_word |-> f.flat_phone_to_word,
     word_phone_offsets |-> Append(f.word_phone_offsets, Len(f.flat_phonemes))]

build_chapter_reference(surah_num) ==
    ChapterReference(surah_num, MappingWords(surah_num),
        Flatten(1, Len(MappingWords(surah_num)), MappingWords(surah_num),
                [flat_phonemes |-> << >>, flat_phone_to_word |-> << >>,
                 word_phone_offsets |-> << >>]))

\* phoneme_matcher_cache.get_chapter_reference: the cached reference
CHAPTER_CACHE == [s \in 1..114 |-> build_chapter_reference(s)]

get_chapter_reference(s) == CHAPTER_CACHE[s]

\* Python round(num / den): round half to even
RoundHalfEven(num, den) ==
    LET q == num \div den
        r == num % den
    IN  IF 2 * r < den THEN q
        ELSE IF 2 * r > den THEN q + 1
        ELSE IF q % 2 = 0 THEN q ELSE q + 1

\* a window that begins one word too early (a faulty variant of WinStart)
WinStartEarly(pointer, lb) == Max2(0, pointer - lb - 1)

\* win_start of align_segment
WinStart(pointer, lb) == Max2(0, pointer - lb)

\* an acceptance test that rejects nothing (a faulty variant of Accepts)
AcceptsAll(cost, denom, threshold) == TRUE

\* acceptance test "norm_dist > threshold -> reject" of align_segment
Accepts(cost, denom, threshold) == 100 * cost <= threshold * denom

NoAlignment ==
    [ok |-> FALSE, start_word_idx |-> 0, end_word_idx |-> 0, edit_cost |-> 0, denom |-> 1,
     j_start |-> 0, best_j |-> 0, basmala_consumed |-> FALSE, win_start |-> 0]

RECURSIVE FirstRealWord(_, _, _)
\* "for k in range(j_start, best_j)": first non-sentinel word, or -1
FirstRealWord(k, best_j, W) ==
    IF k >= best_j THEN 0 - 1
    ELSE IF W[k + 1] # 0 - 1 THEN W[k + 1]
    ELSE FirstRealWord(k + 1, best_j, W)

\* avg_phones = total_phones / num_words; est_words = max(1, round(m / avg_phones))
EstWords(m, ch) == Max2(1, RoundHalfEven(m * ch.num_words, ch.total_phones))

\* win_end of align_segment
WinEnd(ch, pointer, est_words, la) == Min2(ch.num_words, pointer + est_words + la)

\* R_phonemes / R_phone_to_word of the words win_start .. win_end - 1, with
\* the Basmala phonemes (word index -1) prepended on request
RefWindow(ch, win_start, win_end, basmala_prefix) ==
    [R |-> (IF basmala_prefix THEN BASMALA_PHONEMES ELSE << >>)
           \o Slice(ch.flat_phonemes, ch.word_phone_offsets[win_start + 1],
                    ch.word_phone_offsets[win_end + 1]),
     W |-> (IF basmala_prefix THEN [x \in 1..Len(BASMALA_PHONEMES) |-> 0 - 1] ELSE << >>)
           \o Slice(ch.flat_phone_to_word, ch.word_phone_offsets[win_start + 1],
                    ch.word_phone_offsets[win_end + 1])]

\* the end of align_segment: no candidate, threshold, word indices of the match
AlignmentOf(dp, W, basmala_prefix, threshold, win_start) ==
    IF ~dp.found THEN NoAlignment
    ELSE IF ~Accepts(dp.cost, dp.denom, threshold) THEN NoAlignment
    ELSE
    LET sw == W[dp.j_start + 1]
        consumed == basmala_prefix /\ sw = 0 - 1
        first == IF consumed THEN FirstRealWord(dp.j_start, dp.best_j, W) ELSE sw
    IN  IF consumed /\ first = 0 - 1 THEN NoAlignment
        ELSE [ok |-> TRUE, start_word_idx |-> first, end_word_idx |-> W[dp.best_j],
              edit_cost |-> dp.cost, denom |-> dp.denom,
              j_start |-> dp.j_start, best_j |-> dp.best_j,
              basmala_consumed |-> consumed, win_start |-> win_start]

\* the DP over the window
AlignWindow(P, win, pointer, basmala_prefix, threshold, win_start) ==
    IF Len(win.R) = 0 THEN NoAlignment
    ELSE AlignmentOf(align_with_word_boundaries(P, win.R, win.W, pointer, START_PRIOR_WEIGHT,
                         COST_SUBSTITUTION, COST_DELETION, COST_INSERTION),
                     win.W, basmala_prefix, threshold, win_start)

\* align_segment(asr_phonemes, chapter_ref, pointer, basmala_prefix,
\*               lookback, lookahead, threshold); confidence = 1 - cost/(10*denom)
align_segment(P, ch, pointer, basmala_prefix, lb, la, threshold) ==
    IF Len(P) = 0 THEN NoAlignment
    ELSE IF WinStart(pointer, lb) >= ch.num_words THEN NoAlignment
    ELSE AlignWindow(P,
                     RefWindow(ch, WinStart(pointer, lb),
                               WinEnd(ch, pointer, EstWords(Len(P), ch), la), basmala_prefix),
                     pointer, basmala_prefix, threshold, WinStart(pointer, lb))

\* ------------------------------------------------------------------------
\* Result tuples (matched_text, score, matched_ref)
\* ------------------------------------------------------------------------
\* A score is the exact fraction num / den.
Score(num, den) == [num |-> num, den |-> den]

ZeroScore == Score(0, 1)

ScoreLess(a, b) == a.num * b.den < b.num * a.den

\* matched_ref: "" | a special / transition name | "s:a:w-s:a:w"
NoRef == [kind |-> "none", name |-> "", surah |-> 0, from |-> <<0, 0>>, to |-> <<0, 0>>]

SpecialRef(name) ==
    [kind |-> "special", name |-> name, surah |-> 0, from |-> <<0, 0>>, to |-> <<0, 0>>]

\* AlignmentResult.matched_ref = start_word.location "-" end_word.location
matched_ref(start_word, end_word) ==
    [kind |-> "quran", name |-> "", surah |-> start_word.surah,
     from |-> <<start_word.ayah, start_word.word_num>>,
     to |-> <<end_word.ayah, end_word.word_num>>]

Result(text, score, ref) == [text |-> text, score |-> score, ref |-> ref]

\* the failure / placeholder tuple ("", 0.0, "")
EmptyResult == Result("", ZeroScore, NoRef)

\* (SPECIAL_TEXT[name], 1.0 - dist, name)
SpecialResult(name, d) == Result(name, Score(d.max_len - d.edit, d.max_len), SpecialRef(name))

\* 1.0 - edit_cost: the distance without its normalisation
ConfidenceOfCost(al) == Score(10 - al.edit_cost, 10)

\* confidence = 1.0 - norm_dist of an accepted alignment
Confidence(al) == Score(10 * al.denom - al.edit_cost, 10 * al.denom)

\* ------------------------------------------------------------------------
\* Transition segments.  detect_transition_segment and its tables are
\* imported from special_segments but not part of the sources at hand; they
\* follow the description: one canonical phoneme sequence per transition,
\* normalised edit distance, threshold MAX_TRANSITION_EDIT_DISTANCE, an
\* optional "allowed" set.
\* ------------------------------------------------------------------------
TRANSITION_NAMES == << "Amin", "Takbir", "Tahmeed", "Tasleem", "Sadaqa" >>

TRANSITION_PHONEMES ==
    [name \in {"Amin", "Takbir", "Tahmeed", "Tasleem", "Sadaqa"} |->
        CASE name = "Amin"    -> << "q", "a:", "m", "i:", "n" >>
          [] name = "Takbir"  -> << "q", "a", "ll", "a:", "h", "u", "q", "a", "k", "b", "a", "r" >>
          [] name = "Tahmeed" -> << "s", "a", "m", "i", "E", "a", "ll", "a:", "h", "u", "l", "i", "m", "a", "n" >>
          [] name = "Tasleem" -> << "q", "a", "ss", "a", "l", "a:", "m", "u", "E", "a", "l", "a", "j" >>
          [] OTHER            -> << "sQ", "a", "d", "a", "q", "a", "ll", "a:", "h" >>]

AllTransitions == {"Amin", "Takbir", "Tahmeed", "Tasleem", "Sadaqa"}

\* The phoneme lists a segment of a recitation is drawn from.
SEG_G == << "z", "z", "z" >>

SEG_A12 == W_A1 \o W_A2

\* a Basmala recited in one breath with the three words that follow it
SEG_BV == BASMALA_PHONEMES \o W_A0 \o W_A1 \o W_A2

\* the first word, half of it misheard
SEG_N == << "k", "a", "z", "z" >>

SEG_TAHM == TRANSITION_PHONEMES["Tahmeed"]

SEG_AMIN == TRANSITION_PHONEMES["Amin"]

\* the first word misheard so that it is as close to Amin as to the word
SEG_QALM == << "q", "a", "l", "m", "i:", "n" >>

SegmentKinds ==
    {COMBINED_PHONEMES, ISTIADHA_PHONEMES, BASMALA_PHONEMES, SEG_TAHM, SEG_AMIN,
     SEG_G, SEG_N, SEG_A12, SEG_BV, SEG_QALM, W_A0, W_A1, W_A2}

\* phoneme_edit_distance of every segment kind to every canonical sequence,
\* computed once
DISTANCE_CACHE ==
    [asr \in SegmentKinds |->
        [ref \in {COMBINED_PHONEMES, ISTIADHA_PHONEMES, BASMALA_PHONEMES}
                 \cup {TRANSITION_PHONEMES[name] : name \in AllTransitions} |->
            phoneme_edit_distance(asr, ref)]]

\* phoneme_edit_distance(asr, ref), read from the cache when it is there
EditDistance(asr, ref) ==
    IF asr \in DOMAIN DISTANCE_CACHE /\ ref \in DOMAIN DISTANCE_CACHE[asr]
    THEN DISTANCE_CACHE[asr][ref]
    ELSE phoneme_edit_distance(asr, ref)

NoTransition == [name |-> "", conf |-> ZeroScore]

\* the better of "best" and the transition "name" at distance d
Closer(best, name, d, allowed) ==
    IF name \in allowed /\ DistWithin(d, MAX_TRANSITION_EDIT_DISTANCE)
       /\ (best.name = "" \/ ScoreLess(best.conf, Score(d.max_len - d.edit, d.max_len)))
    THEN [name |-> name, conf |-> Score(d.max_len - d.edit, d.max_len)]
    ELSE best

RECURSIVE BestTransition(_, _, _, _)
\* scan the transitions in order, keep the closest one within the threshold
BestTransition(k, asr, allowed, best) ==
    IF k > Len(TRANSITION_NAMES) THEN best
    ELSE BestTransition(k + 1, asr, allowed,
             Closer(best, TRANSITION_NAMES[k],
                    EditDistance(asr, TRANSITION_PHONEMES[TRANSITION_NAMES[k]]), allowed))

detect_transition_segment(asr, allowed) == BestTransition(1, asr, allowed, NoTransition)

\* (TRANSITION_TEXT[name], conf, name)
TransitionResult(t) == Result(t.name, t.conf, SpecialRef(t.name))

\* ------------------------------------------------------------------------
\* special_segments.py : detection of the opening specials
\* ------------------------------------------------------------------------
VadSegment(start_time, end_time, segment_idx) ==
    [start_time |-> start_time, end_time |-> end_time, segment_idx |-> segment_idx]

\* The distances both detectors look at: segment 0 against the three
\* sequences and, when it exists and is not empty, segment 1 against Basmala
\* (has_next tells whether it does).
OpeningDistances(texts) ==
    [combined_dist |-> EditDistance(texts[1], COMBINED_PHONEMES),
     istiadha_dist |-> EditDistance(texts[1], ISTIADHA_PHONEMES),
     basmala_dist |-> EditDistance(texts[1], BASMALA_PHONEMES),
     has_next |-> Len(texts) >= 2 /\ Len(texts[Min2(2, Len(texts))]) > 0,
     next_basmala_dist |-> EditDistance(texts[Min2(2, Len(texts))], BASMALA_PHONEMES)]

\* segment 0 split at its midpoint, the others renumbered (lines 155-177);
\* times are even integers, so the midpoint is exact
SplitFirst(vads) ==
    << VadSegment(vads[1].start_time, (vads[1].start_time + vads[1].end_time) \div 2, 0),
       VadSegment((vads[1].start_time + vads[1].end_time) \div 2, vads[1].end_time, 1) >>
    \o [k \in 1..(Len(vads) - 1) |->
          VadSegment(vads[k + 1].start_time, vads[k + 1].end_time, k + 1)]

\* the detection order of detect_special_segments (lines 147-234)
OpeningSpecials(d, vads) ==
    IF DistWithin(d.combined_dist, MAX_SPECIAL_EDIT_DISTANCE)
    THEN [vad_segments |-> SplitFirst(vads),
          special_results |-> << SpecialResult("Isti'adha", d.combined_dist),
                                 SpecialResult("Basmala", d.combined_dist) >>,
          first_quran_idx |-> 2]
    ELSE IF DistWithin(d.istiadha_dist, MAX_SPECIAL_EDIT_DISTANCE)
    THEN IF d.has_next /\ DistWithin(d.next_basmala_dist, MAX_SPECIAL_EDIT_DISTANCE)
         THEN [vad_segments |-> vads,
               special_results |-> << SpecialResult("Isti'adha", d.istiadha_dist),
                                      SpecialResult("Basmala", d.next_basmala_dist) >>,
               first_quran_idx |-> 2]
         ELSE [vad_segments |-> vads,
               special_results |-> << SpecialResult("Isti'adha", d.istiadha_dist) >>,
               first_quran_idx |-> 1]
    ELSE IF DistWithin(d.basmala_dist, MAX_SPECIAL_EDIT_DISTANCE)
    THEN [vad_segments |-> vads,
          special_results |-> << SpecialResult("Basmala", d.basmala_dist) >>,
          first_quran_idx |-> 1]
    ELSE [vad_segments |-> vads, special_results |-> << >>, first_quran_idx |-> 0]

\* detect_special_segments(phoneme_texts, vad_segments, segment_audios);
\* the audio arrays are cut alongside the intervals and are not modelled
detect_special_segments(texts, vads) ==
    IF Len(texts) = 0 \/ Len(vads) = 0
    THEN [vad_segments |-> vads, special_results |-> << >>, first_quran_idx |-> 0]
    ELSE OpeningSpecials(OpeningDistances(texts), vads)

\* the detection order of detect_inter_chapter_specials (lines 257-295)
InterSpecials(d) ==
    IF DistWithin(d.combined_dist, MAX_SPECIAL_EDIT_DISTANCE)
    THEN [inter_specials |-> << SpecialResult("Isti'adha+Basmala", d.combined_dist) >>,
          num_consumed |-> 1]
    ELSE IF DistWithin(d.istiadha_dist, MAX_SPECIAL_EDIT_DISTANCE)
    THEN IF d.has_next /\ DistWithin(d.next_basmala_dist, MAX_SPECIAL_EDIT_DISTANCE)
         THEN [inter_specials |-> << SpecialResult("Isti'adha", d.istiadha_dist),
                                     SpecialResult("Basmala", d.next_basmala_dist) >>,
               num_consumed |-> 2]
         ELSE [inter_specials |-> << SpecialResult("Isti'adha", d.istiadha_dist) >>,
               num_consumed |-> 1]
    ELSE IF DistWithin(d.basmala_dist, MAX_SPECIAL_EDIT_DISTANCE)
    THEN [inter_specials |-> << SpecialResult("Basmala", d.basmala_dist) >>, num_consumed |-> 1]
    ELSE [inter_specials |-> << >>, num_consumed |-> 0]

\* detect_inter_chapter_specials(phoneme_texts) -> (special_results, num_consumed)
detect_inter_chapter_specials(texts) ==
    IF Len(texts) = 0 \/ Len(texts[1]) = 0
    THEN [inter_specials |-> << >>, num_consumed |-> 0]
    ELSE InterSpecials(OpeningDistances(texts))

\* ------------------------------------------------------------------------
\* phoneme_anchor.py
\* ------------------------------------------------------------------------
RECURSIVE CombinedLen(_, _, _)
\* number of phonemes in the first n_segments segments (empty ones add nothing)
CombinedLen(texts, k, n_segments) ==
    IF k > Len(texts) \/ k > n_segments THEN 0
    ELSE Len(texts[k]) + CombinedLen(texts, k + 1, n_segments)

\* find_anchor_by_voting: the answers the vote can give.  The n-gram index is
\* external data: "targets" are the verses it can vote for.  Fewer than
\* NGRAM_SIZE phonemes give no n-gram, hence no vote and (0, 0).
find_anchor_by_voting(texts, targets, n_segments) ==
    IF CombinedLen(texts, 1, n_segments) < NGRAM_SIZE
    THEN { <<0, 0>> }
    ELSE targets \cup { <<0, 0>> }

\* verse_to_word_index: index of the first word of the ayah, 0 if not found
verse_to_word_index(chapter_ref, ayah) ==
    LET hits == {idx \in 1..Len(chapter_ref.words) : chapter_ref.words[idx].ayah = ayah}
    IN  IF hits = {} THEN 0
        ELSE (CHOOSE idx \in hits : \A k \in hits : idx <= k) - 1

\* the four attempts with a tier 2 that accepts any distance
ATTEMPTS_TIER2_ANY ==
    [mode \in {"plain", "fused", "tier1", "tier2"} |->
        [basmala_prefix |-> mode = "fused",
         lookback |-> IF mode \in {"tier1", "tier2"} THEN RETRY_LOOKBACK_WORDS ELSE LOOKBACK_WORDS,
         lookahead |-> IF mode \in {"tier1", "tier2"} THEN RETRY_LOOKAHEAD_WORDS ELSE LOOKAHEAD_WORDS,
         threshold |-> IF mode = "tier2" THEN 1000 ELSE MAX_EDIT_DISTANCE]]

\* The four ways run_phoneme_matching calls align_segment: the plain attempt,
\* the Basmala-fused one, retry tier 1 and retry tier 2.
ATTEMPTS ==
    [mode \in {"plain", "fused", "tier1", "tier2"} |->
        [basmala_prefix |-> mode = "fused",
         lookback |-> IF mode \in {"tier1", "tier2"} THEN RETRY_LOOKBACK_WORDS ELSE LOOKBACK_WORDS,
         lookahead |-> IF mode \in {"tier1", "tier2"} THEN RETRY_LOOKAHEAD_WORDS ELSE LOOKAHEAD_WORDS,
         threshold |-> IF mode = "tier2" THEN MAX_EDIT_DISTANCE_RELAXED ELSE MAX_EDIT_DISTANCE]]

Attempt(asr, chapter_ref, pointer, mode) ==
    align_segment(asr, chapter_ref, pointer, ATTEMPTS[mode].basmala_prefix,
                  ATTEMPTS[mode].lookback, ATTEMPTS[mode].lookahead, ATTEMPTS[mode].threshold)

\* The alignments of every segment kind against the three-word chapters,
\* computed once: an alignment depends on the phonemes of the chapter, which
\* these chapters share, and not on its number.
ALIGNMENT_CACHE ==
    [asr \in SegmentKinds |->
        [pointer \in 0..Len(ShortChapterWords(1)) |->
            [mode \in DOMAIN ATTEMPTS |->
                Attempt(asr, build_chapter_reference(1), pointer, mode)]]]

\* align_segment(asr, chapter_ref, pointer, ...), read from the cache when it is there
Align(asr, chapter_ref, pointer, mode) ==
    IF asr \in DOMAIN ALIGNMENT_CACHE /\ pointer \in DOMAIN ALIGNMENT_CACHE[asr]
       /\ chapter_ref.flat_phonemes = build_chapter_reference(1).flat_phonemes
    THEN ALIGNMENT_CACHE[asr][pointer][mode]
    ELSE Attempt(asr, chapter_ref, pointer, mode)

\* ------------------------------------------------------------------------
\* alignment_pipeline.py : run_phoneme_matching.  "st" is the record of the
\* function's local variables, "texts" its phoneme_texts, "fqi" its
\* first_quran_idx; st.i counts the iterations of the main loop.  st.log keeps,
\* per iteration, the branch that emitted the result (the printed tags) and
\* the pointer the accepted attempt was called with.
\* ------------------------------------------------------------------------
None == << >>

LogEntry(branch, ptr, st) ==
    [branch |-> branch, ptr |-> ptr, chapter |-> st.chapter_ref,
     seg |-> st.first_quran_idx + st.i, jumps |-> st.jumps,
     expected |-> st.transition_expected_pointer,
     failures |-> st.consecutive_failures,
     detected |-> st.detected_surah]

\* results.append(res); word_indices.append(wi); end of the iteration
Emit(st, res, wi, branch, ptr) ==
    [st EXCEPT !.results = Append(@, res),
               !.word_indices = Append(@, wi),
               !.log = Append(@, LogEntry(branch, ptr, st)),
               !.i = @ + 1]

\* the special queued last is emitted first (a faulty variant of QueuedSpecial)
QueuedSpecialLast(st) ==
    Emit([st EXCEPT !.pending_specials = SubSeq(@, 1, Len(@) - 1), !.skip_count = @ - 1],
         st.pending_specials[Len(st.pending_specials)], None, "queued", st.pointer)

\* lines 118-122: a segment consumed by inter-chapter special detection
QueuedSpecial(st) ==
    Emit([st EXCEPT !.pending_specials = Tail(@), !.skip_count = @ - 1],
         Head(st.pending_specials), None, "queued", st.pointer)

\* a merged segment passed over without a result (a faulty variant of
\* TahmeedPlaceholder)
SilentPlaceholder(st) ==
    [st EXCEPT !.tahmeed_merge_skip = @ - 1, !.transition_skips = @ + 1,
               !.log = Append(@, LogEntry("placeholder", st.pointer, st)),
               !.i = @ + 1]

\* lines 125-131: a segment merged into the preceding Tahmeed
TahmeedPlaceholder(st) ==
    Emit([st EXCEPT !.tahmeed_merge_skip = @ - 1, !.transition_skips = @ + 1],
         EmptyResult, None, "placeholder", st.pointer)

\* a peek-ahead that records the merge and does not set tahmeed_merge_skip
\* (a faulty variant of TahmeedPeek)
TahmeedPeekNoSkip(st, trans_name, texts, fqi) ==
    IF trans_name = "Tahmeed" /\ fqi + st.i + 1 < Len(texts)
       /\ Len(texts[fqi + st.i + 2]) > 0
       /\ detect_transition_segment(texts[fqi + st.i + 2], {"Tahmeed"}).name # ""
    THEN [st EXCEPT !.merged_into = ((fqi + st.i + 1) :> (fqi + st.i)) @@ @]
    ELSE st

\* Tahmeed peek-ahead (lines 146-154 and 354-362)
TahmeedPeek(st, trans_name, texts, fqi) ==
    IF trans_name = "Tahmeed" /\ fqi + st.i + 1 < Len(texts)
       /\ Len(texts[fqi + st.i + 2]) > 0
       /\ detect_transition_segment(texts[fqi + st.i + 2], {"Tahmeed"}).name # ""
    THEN [st EXCEPT !.merged_into = ((fqi + st.i + 1) :> (fqi + st.i)) @@ @,
                    !.tahmeed_merge_skip = 1]
    ELSE st

\* a check that flags the index after the one just appended (a faulty
\* variant of check_transition_gap)
check_transition_gap_next(st, start_word_idx) ==
    IF st.transition_expected_pointer < 0 THEN st
    ELSE [st EXCEPT !.gap_segments =
                        IF start_word_idx > st.transition_expected_pointer
                        THEN @ \cup {Len(st.word_indices)} ELSE @,
                    !.transition_expected_pointer = 0 - 1]

\* a check that leaves the expectation pending after it has flagged a segment
\* (a faulty variant of check_transition_gap)
check_transition_gap_pending(st, start_word_idx) ==
    IF st.transition_expected_pointer < 0 THEN st
    ELSE [st EXCEPT !.gap_segments =
                        IF start_word_idx > st.transition_expected_pointer
                        THEN @ \cup {Len(st.word_indices) - 1} ELSE @]

\* _check_transition_gap, called right after word_indices.append
check_transition_gap(st, start_word_idx) ==
    IF st.transition_expected_pointer < 0 THEN st
    ELSE [st EXCEPT !.gap_segments =
                        IF start_word_idx > st.transition_expected_pointer
                        THEN @ \cup {Len(st.word_indices) - 1} ELSE @,
                    !.transition_expected_pointer = 0 - 1]

\* a re-anchor that restarts the loaded chapter when the vote names no surah
\* (a faulty variant of JumpTo)
JumpToOrRestart(st, reanchor) ==
    IF reanchor[1] > 0
    THEN LET ref == IF reanchor[1] # st.detected_surah THEN reanchor[1] ELSE st.chapter_ref
         IN  [st EXCEPT !.detected_surah = reanchor[1], !.chapter_ref = ref,
                        !.pointer = verse_to_word_index(get_chapter_reference(ref), reanchor[2]),
                        !.transition_expected_pointer =
                            verse_to_word_index(get_chapter_reference(ref), reanchor[2]),
                        !.jumps = @ + 1]
    ELSE [st EXCEPT !.pointer = 0, !.transition_expected_pointer = 0]

\* a global re-anchor answer applied to the pointer (lines 167-174, 430-437)
JumpTo(st, reanchor) ==
    IF reanchor[1] > 0
    THEN LET ref == IF reanchor[1] # st.detected_surah THEN reanchor[1] ELSE st.chapter_ref
         IN  [st EXCEPT !.detected_surah = reanchor[1], !.chapter_ref = ref,
                        !.pointer = verse_to_word_index(get_chapter_reference(ref), reanchor[2]),
                        !.transition_expected_pointer =
                            verse_to_word_index(get_chapter_reference(ref), reanchor[2]),
                        !.jumps = @ + 1]
    ELSE st

\* the answer of find_anchor_by_voting on "remaining" when the index would
\* answer "pick"
Vote(remaining, targets, pick) ==
    IF pick \in find_anchor_by_voting(remaining, targets, ANCHOR_SEGMENTS) THEN pick ELSE <<0, 0>>

\* lines 158-175: leaving transition mode
ExitTransitionMode(st, texts, fqi, targets, pick) ==
    IF fqi + st.i < Len(texts)
    THEN [JumpTo([st EXCEPT !.transition_mode = FALSE],
                 Vote(SubSeq(texts, fqi + st.i + 1, Len(texts)), targets, pick))
          EXCEPT !.consecutive_failures = 0]
    ELSE [st EXCEPT !.transition_mode = FALSE]

\* words of the current chapter
Words(st) == get_chapter_reference(st.chapter_ref).words

\* an accepted alignment that moves the pointer two words past the match (a
\* faulty variant of Advance)
AdvancePastNext(st, al, by, ptr) ==
    [check_transition_gap(
         [st EXCEPT !.pointer = al.end_word_idx + 2,
                    !.consecutive_failures = 0,
                    !.is_first_after_transition = FALSE,
                    !.word_indices = Append(@, <<al.start_word_idx, al.end_word_idx>>),
                    !.segments_passed = @ + 1,
                    !.special_merges = IF by = "fused" THEN @ + 1 ELSE @,
                    !.tier1_passed = IF by = "tier1" THEN @ + 1 ELSE @,
                    !.tier2_passed = IF by = "tier2" THEN @ + 1 ELSE @],
         al.start_word_idx)
     EXCEPT !.results = Append(@, Result(IF by = "fused" THEN "Basmala verse" ELSE "verse",
                                         Confidence(al),
                                         matched_ref(Words(st)[al.start_word_idx + 1],
                                                     Words(st)[al.end_word_idx + 1]))),
            !.log = Append(@, LogEntry(by, ptr, st)),
            !.i = @ + 1]

\* an accepted alignment: lines 320-331 (fused), 335-342 (plain), 402-413 (retry)
Advance(st, al, by, ptr) ==
    [check_transition_gap(
         [st EXCEPT !.pointer = al.end_word_idx + 1,
                    !.consecutive_failures = 0,
                    !.is_first_after_transition = FALSE,
                    !.word_indices = Append(@, <<al.start_word_idx, al.end_word_idx>>),
                    !.segments_passed = @ + 1,
                    !.special_merges = IF by = "fused" THEN @ + 1 ELSE @,
                    !.tier1_passed = IF by = "tier1" THEN @ + 1 ELSE @,
                    !.tier2_passed = IF by = "tier2" THEN @ + 1 ELSE @],
         al.start_word_idx)
     EXCEPT !.results = Append(@, Result(IF by = "fused" THEN "Basmala verse" ELSE "verse",
                                         Confidence(al),
                                         matched_ref(Words(st)[al.start_word_idx + 1],
                                                     Words(st)[al.end_word_idx + 1]))),
            !.log = Append(@, LogEntry(by, ptr, st)),
            !.i = @ + 1]

\* a re-anchor that votes over the failed segment and those after it (a
\* faulty variant of Reanchor)
ReanchorFromFailed(st, texts, fqi, targets, pick) ==
    IF st.consecutive_failures >= MAX_CONSECUTIVE_FAILURES
    THEN [(IF fqi + st.i < Len(texts)
           THEN JumpTo(st, Vote(SubSeq(texts, fqi + st.i + 1, Len(texts)), targets, pick))
           ELSE st)
          EXCEPT !.consec_reanchors = @ + 1, !.consecutive_failures = 0]
    ELSE st

\* lines 421-438: the re-anchor after MAX_CONSECUTIVE_FAILURES failures
Reanchor(st, texts, fqi, targets, pick) ==
    IF st.consecutive_failures >= MAX_CONSECUTIVE_FAILURES
    THEN [(IF fqi + st.i + 1 < Len(texts)
           THEN JumpTo(st, Vote(SubSeq(texts, fqi + st.i + 2, Len(texts)), targets, pick))
           ELSE st)
          EXCEPT !.consec_reanchors = @ + 1, !.consecutive_failures = 0]
    ELSE st

\* a failure that ends the loop
FailureFatal(st, texts, fqi, targets, pick) ==
    [st EXCEPT !.consecutive_failures = @ + 1,
               !.word_indices = Append(@, None),
               !.results = Append(@, EmptyResult),
               !.log = Append(@, LogEntry("failure", st.pointer, st)),
               !.i = Len(texts) - fqi]

\* lines 415-440: real failure after all retries
Failure(st, texts, fqi, targets, pick) ==
    [Reanchor([st EXCEPT !.consecutive_failures = @ + 1, !.word_indices = Append(@, None)],
              texts, fqi, targets, pick)
     EXCEPT !.results = Append(@, EmptyResult),
            !.log = Append(@, LogEntry("failure", st.pointer, st)),
            !.i = @ + 1]

\* One iteration of the loop is a sequence of stages.  A stage hands on the
\* locals, whether the iteration has ended ("continue"), the alignment in
\* hand, and whether the chapter-end condition of line 188 holds.
Continue(st) == [st |-> st, done |-> TRUE, alignment |-> NoAlignment, at_end |-> FALSE]

Proceed(st, alignment, at_end) ==
    [st |-> st, done |-> FALSE, alignment |-> alignment, at_end |-> at_end]

\* lines 137-176: a segment met in transition mode
TransitionMode(st, trans, texts, fqi, targets, pick) ==
    IF trans.name # ""
    THEN Continue(Emit(TahmeedPeek([st EXCEPT !.transition_skips = @ + 1],
                                   trans.name, texts, fqi),
                       TransitionResult(trans), None, "transition-mode", st.pointer))
    ELSE Proceed(ExitTransitionMode(st, texts, fqi, targets, pick), NoAlignment, FALSE)

\* lines 116-176: the head of the loop body
LoopHead(st, asr, texts, fqi, targets, pick) ==
    IF st.skip_count > 0 THEN Continue(QueuedSpecial(st))
    ELSE IF st.tahmeed_merge_skip > 0 THEN Continue(TahmeedPlaceholder(st))
    ELSE IF st.transition_mode
    THEN TransitionMode([st EXCEPT !.segments_attempted = @ + 1],
                        detect_transition_segment(asr, AllTransitions),
                        texts, fqi, targets, pick)
    ELSE Proceed([st EXCEPT !.segments_attempted = @ + 1], NoAlignment, FALSE)

\* line 188: "alignment is None and pointer >= chapter_ref.num_words"
FirstAttempt(st, alignment) ==
    Proceed(st, alignment,
            ~alignment.ok /\ st.pointer >= get_chapter_reference(st.chapter_ref).num_words)

\* lines 178-179: the plain attempt
PlainAttempt(c, asr) ==
    IF c.done THEN c
    ELSE FirstAttempt([c.st EXCEPT !.num_segments = @ + 1],
                      Align(asr, get_chapter_reference(c.st.chapter_ref), c.st.pointer, "plain"))

HasBasmala(inter_specials) ==
    \E k \in 1..Len(inter_specials) :
        inter_specials[k].ref.name \in {"Basmala", "Isti'adha+Basmala"}

\* History kept for the properties, not a local of the function: the chapter
\* boundaries crossed and the Basmala-fused attempts made, each with the
\* segment it happened at.
Boundary(st, basmala) ==
    [st EXCEPT !.events = Append(@, [kind |-> "boundary", seg |-> st.first_quran_idx + st.i,
                                     basmala |-> basmala])]

FusedAttempt(st) ==
    [st EXCEPT !.events = Append(@, [kind |-> "fused", seg |-> st.first_quran_idx + st.i,
                                     basmala |-> FALSE])]

\* lines 291-293: the segment re-tried against the new chapter
Realign(st, asr) ==
    Proceed(st, Align(asr, get_chapter_reference(st.chapter_ref), st.pointer, "plain"), FALSE)

\* lines 262-299: the new chapter is entered (st.chapter_ref is next_surah)
Arrive(st, amin_consumed, det, asr) ==
    IF amin_consumed > 0
    THEN \* lines 266-276: the Amin result is already in results
         Continue([Boundary(st, det.num_consumed > 0 /\ HasBasmala(det.inter_specials))
                      EXCEPT !.detected_surah = st.chapter_ref,
                             !.consecutive_failures = 0,
                             !.is_first_after_transition =
                                 IF det.num_consumed > 0 THEN ~HasBasmala(det.inter_specials)
                                 ELSE TRUE,
                             !.pending_specials =
                                 IF det.num_consumed > 0 THEN det.inter_specials ELSE @,
                             !.skip_count = IF det.num_consumed > 0 THEN det.num_consumed ELSE @,
                             !.log = Append(@, LogEntry("amin", st.pointer, st)),
                             !.i = @ + 1])
    ELSE IF det.num_consumed > 0
    THEN \* lines 278-289
         Continue(Emit([Boundary(st, HasBasmala(det.inter_specials))
                           EXCEPT !.detected_surah = st.chapter_ref,
                                  !.consecutive_failures = 0,
                                  !.is_first_after_transition = ~HasBasmala(det.inter_specials),
                                  !.pending_specials =
                                      IF det.num_consumed > 1 THEN Tail(det.inter_specials) ELSE @,
                                  !.skip_count =
                                      IF det.num_consumed > 1 THEN det.num_consumed - 1 ELSE @],
                       det.inter_specials[1], None, "inter-special", st.pointer))
    ELSE Realign([Boundary(st, FALSE)
                     EXCEPT !.detected_surah = st.chapter_ref,
                            !.consecutive_failures = 0,
                            !.is_first_after_transition = TRUE,
                            !.num_segments = @ + 1],
                 asr)

\* history kept for the properties: Al-Fatiha's chapter end is handled with
\* this expected pointer pending; "jumps" counts the pointer moves so far
FatihaEnd(st) ==
    [st EXCEPT !.events = Append(@, [kind |-> "fatiha-end", seg |-> st.first_quran_idx + st.i,
                                     basmala |-> FALSE,
                                     expected |-> st.transition_expected_pointer,
                                     jumps |-> st.jumps + 1])]

\* the chapter chosen after Al-Fatiha is entered like any other transition:
\* the pointer it sets is expected (a faulty variant of AfterFatiha)
AfterFatihaExpecting(st, reanchor) ==
    IF reanchor[1] > 0
    THEN [FatihaEnd(st)
             EXCEPT !.chapter_ref = reanchor[1],
                    !.pointer = verse_to_word_index(get_chapter_reference(reanchor[1]),
                                                    reanchor[2]),
                    !.transition_expected_pointer =
                        verse_to_word_index(get_chapter_reference(reanchor[1]), reanchor[2]),
                    !.jumps = @ + 1]
    ELSE [FatihaEnd(st) EXCEPT !.chapter_ref = 2, !.pointer = 0,
                               !.transition_expected_pointer = 0, !.jumps = @ + 1]

\* lines 207-233: after Al-Fatiha the next chapter is the one the vote names,
\* surah 2 when it names none
AfterFatiha(st, reanchor) ==
    IF reanchor[1] > 0
    THEN [FatihaEnd(st)
             EXCEPT !.chapter_ref = reanchor[1],
                    !.pointer = verse_to_word_index(get_chapter_reference(reanchor[1]),
                                                    reanchor[2]),
                    !.jumps = @ + 1]
    ELSE [FatihaEnd(st) EXCEPT !.chapter_ref = 2, !.pointer = 0, !.jumps = @ + 1]

\* a chapter-end transition that loads the next chapter and keeps the old
\* detected_surah (a faulty variant of SequentialChapter)
SequentialChapterStale(st, alignment, det, trans, asr) ==
    IF trans.name # ""
    THEN Continue(Emit([Boundary(st, FALSE)
                           EXCEPT !.transition_skips = @ + 1, !.transition_mode = TRUE,
                                  !.chapter_ref = st.chapter_ref + 1,
                                  !.pointer = 0, !.transition_expected_pointer = 0,
                                  !.consecutive_failures = 0],
                       TransitionResult(trans), None, "chapter-end-transition", st.pointer))
    ELSE Arrive([st EXCEPT !.chapter_ref = st.chapter_ref + 1, !.pointer = 0,
                           !.transition_expected_pointer = 0],
                0, det, asr)

\* lines 239-260: the next sequential chapter, unless the segment is a transition
SequentialChapter(st, alignment, det, trans, asr) ==
    IF trans.name # ""
    THEN Continue(Emit([Boundary(st, FALSE)
                           EXCEPT !.transition_skips = @ + 1, !.transition_mode = TRUE,
                                  !.detected_surah = st.chapter_ref + 1,
                                  !.chapter_ref = st.chapter_ref + 1,
                                  !.pointer = 0, !.transition_expected_pointer = 0,
                                  !.consecutive_failures = 0],
                       TransitionResult(trans), None, "chapter-end-transition", st.pointer))
    ELSE Arrive([st EXCEPT !.chapter_ref = st.chapter_ref + 1, !.pointer = 0,
                           !.transition_expected_pointer = 0],
                0, det, asr)

\* lines 205-260
AfterSpecials(st, alignment, amin_consumed, det, asr, texts, fqi, targets, pick) ==
    IF st.chapter_ref = 1
    THEN Arrive(AfterFatiha(st, Vote(SubSeq(texts,
                                            fqi + st.i + amin_consumed + det.num_consumed + 1,
                                            Len(texts)),
                                     targets, pick)),
                amin_consumed, det, asr)
    ELSE IF st.chapter_ref + 1 > 114
    THEN \* no more chapters: fall through with the failed alignment
         Proceed(st, alignment, FALSE)
    ELSE SequentialChapter(st, alignment, det,
                           IF det.num_consumed = 0
                           THEN detect_transition_segment(asr, AllTransitions)
                           ELSE NoTransition,
                           asr)

\* lines 192-205: Amin after Al-Fatiha, then the inter-chapter specials
AfterAmin(st, alignment, amin, asr, texts, fqi, targets, pick) ==
    IF amin.name # ""
    THEN AfterSpecials([st EXCEPT !.results = Append(@, TransitionResult(amin)),
                                  !.word_indices = Append(@, None),
                                  !.transition_skips = @ + 1],
                       alignment, 1,
                       detect_inter_chapter_specials(SubSeq(texts, fqi + st.i + 2, Len(texts))),
                       asr, texts, fqi, targets, pick)
    ELSE AfterSpecials(st, alignment, 0,
                       detect_inter_chapter_specials(SubSeq(texts, fqi + st.i + 1, Len(texts))),
                       asr, texts, fqi, targets, pick)

\* lines 188-299: the pointer is past the end of the chapter
ChapterEnd(c, asr, texts, fqi, targets, pick) ==
    IF c.done \/ ~c.at_end THEN c
    ELSE AfterAmin(c.st, c.alignment,
                   IF c.st.chapter_ref = 1 THEN detect_transition_segment(asr, {"Amin"})
                   ELSE NoTransition,
                   asr, texts, fqi, targets, pick)

\* the fused alignment also wins on equal confidence (a faulty variant of Fused)
FusedOnTie(st, alignment, basmala_alignment) ==
    IF basmala_alignment.ok /\ basmala_alignment.basmala_consumed
       /\ ~ScoreLess(Confidence(basmala_alignment),
                     IF alignment.ok THEN Confidence(alignment) ELSE ZeroScore)
    THEN Continue(Advance(st, basmala_alignment, "fused", st.pointer))
    ELSE Proceed(st, alignment, FALSE)

\* lines 317-332: the fused alignment wins, or the one in hand is kept
Fused(st, alignment, basmala_alignment) ==
    IF basmala_alignment.ok /\ basmala_alignment.basmala_consumed
       /\ ScoreLess(IF alignment.ok THEN Confidence(alignment) ELSE ZeroScore,
                    Confidence(basmala_alignment))
    THEN Continue(Advance(st, basmala_alignment, "fused", st.pointer))
    ELSE Proceed(st, alignment, FALSE)

\* lines 305-332: the Basmala-fused retry
FusedRetry(c, asr) ==
    IF c.done \/ ~c.st.is_first_after_transition THEN c
    ELSE Fused([FusedAttempt(c.st) EXCEPT !.is_first_after_transition = FALSE,
                                          !.num_segments = @ + 1],
               c.alignment,
               Align(asr, get_chapter_reference(c.st.chapter_ref), c.st.pointer, "fused"))

\* lines 382-440: retry tier 2, then failure
Tier2(st, alignment, texts, fqi, targets, pick) ==
    IF alignment.ok THEN Advance(st, alignment, "tier2", st.pointer)
    ELSE Failure(st, texts, fqi, targets, pick)

\* lines 367-413: retry tier 1
Tier1(st, alignment, asr, texts, fqi, targets, pick) ==
    IF alignment.ok THEN Advance(st, alignment, "tier1", st.pointer)
    ELSE Tier2([st EXCEPT !.tier2_attempts = @ + 1,
                          !.tier2_segments = Append(@, fqi + st.i + 1),
                          !.num_segments = @ + 1],
               Align(asr, get_chapter_reference(st.chapter_ref), st.pointer, "tier2"),
               texts, fqi, targets, pick)

\* no alignment: the retry tiers, and the transition test only when both
\* fail (a faulty variant of Unmatched)
UnmatchedTiersFirst(st, trans, asr, texts, fqi, targets, pick) ==
    IF Align(asr, get_chapter_reference(st.chapter_ref), st.pointer, "tier1").ok
       \/ Align(asr, get_chapter_reference(st.chapter_ref), st.pointer, "tier2").ok
       \/ trans.name = ""
    THEN Tier1([st EXCEPT !.tier1_attempts = @ + 1,
                          !.tier1_segments = Append(@, fqi + st.i + 1),
                          !.num_segments = @ + 1],
               Align(asr, get_chapter_reference(st.chapter_ref), st.pointer, "tier1"),
               asr, texts, fqi, targets, pick)
    ELSE Emit(TahmeedPeek([st EXCEPT !.transition_skips = @ + 1, !.transition_mode = TRUE],
                          trans.name, texts, fqi),
              TransitionResult(trans), None, "transition", st.pointer)

\* lines 344-440: no alignment: a transition, else the retry tiers
Unmatched(st, trans, asr, texts, fqi, targets, pick) ==
    IF trans.name # ""
    THEN Emit(TahmeedPeek([st EXCEPT !.transition_skips = @ + 1, !.transition_mode = TRUE],
                          trans.name, texts, fqi),
              TransitionResult(trans), None, "transition", st.pointer)
    ELSE Tier1([st EXCEPT !.tier1_attempts = @ + 1,
                          !.tier1_segments = Append(@, fqi + st.i + 1),
                          !.num_segments = @ + 1],
               Align(asr, get_chapter_reference(st.chapter_ref), st.pointer, "tier1"),
               asr, texts, fqi, targets, pick)

\* lines 334-440: the alignment in hand is accepted, else Unmatched
Settle(c, asr, texts, fqi, targets, pick) ==
    IF c.done THEN c.st
    ELSE IF c.alignment.ok THEN Advance(c.st, c.alignment, "plain", c.st.pointer)
    ELSE Unmatched(c.st, detect_transition_segment(asr, AllTransitions),
                   asr, texts, fqi, targets, pick)

\* lines 116-440: one iteration of the main loop, for segment asr = texts[fqi + i]
LoopStages(st, asr, texts, fqi, targets, pick) ==
    Settle(FusedRetry(ChapterEnd(PlainAttempt(LoopHead(st, asr, texts, fqi, targets, pick), asr),
                                 asr, texts, fqi, targets, pick),
                      asr),
           asr, texts, fqi, targets, pick)

LoopBody(st, texts, fqi, targets, pick) ==
    LoopStages(st, texts[fqi + st.i + 1], texts, fqi, targets, pick)

\* lines 49-114: the locals before the loop
InitLocals(detected, fqi, sp_results, start_ptr) ==
    [i |-> 0,
     first_quran_idx |-> fqi,
     start_pointer |-> start_ptr,
     results |-> sp_results,
     word_indices |-> [k \in 1..Len(sp_results) |-> None],
     pointer |-> start_ptr,
     detected_surah |-> detected,
     chapter_ref |-> detected,
     is_first_after_transition |->
         ~(\E k \in 1..Len(sp_results) :
               sp_results[k].ref.name \in {"Basmala", "Isti'adha+Basmala"}),
     transition_mode |-> FALSE,
     tahmeed_merge_skip |-> 0,
     merged_into |-> << >>,
     gap_segments |-> {},
     transition_expected_pointer |-> 0 - 1,
     consecutive_failures |-> 0,
     skip_count |-> 0,
     pending_specials |-> << >>,
     num_segments |-> 0,
     tier1_attempts |-> 0, tier1_passed |-> 0, tier1_segments |-> << >>,
     tier2_attempts |-> 0, tier2_passed |-> 0, tier2_segments |-> << >>,
     consec_reanchors |-> 0, segments_attempted |-> 0, segments_passed |-> 0,
     special_merges |-> 0, transition_skips |-> 0,
     jumps |-> 0,
     log |-> << >>,
     events |-> << [kind |-> "boundary", seg |-> fqi,
                    basmala |-> \E k \in 1..Len(sp_results) :
                                    sp_results[k].ref.name \in {"Basmala", "Isti'adha+Basmala"}] >>]

\* the distance between the two segments, not the words missing between
\* them (a faulty variant of gap)
gap_plus_one(prev_end, curr_start) == curr_start - prev_end

\* gap = curr_start - prev_end - 1 (line 459)
gap(prev_end, curr_start) == curr_start - prev_end - 1

RECURSIVE GapScan(_, _, _, _)
\* lines 444-468: consecutive matched segments of one surah with words between
GapScan(idx, prev_matched_idx, st, gaps) ==
    IF idx >= Len(st.results) THEN gaps
    ELSE IF st.word_indices[idx + 1] = None THEN GapScan(idx + 1, prev_matched_idx, st, gaps)
    ELSE IF prev_matched_idx >= 0
            /\ st.results[prev_matched_idx + 1].ref.kind = "quran"
            /\ st.results[idx + 1].ref.kind = "quran"
            /\ st.results[prev_matched_idx + 1].ref.surah = st.results[idx + 1].ref.surah
            /\ gap(st.word_indices[prev_matched_idx + 1][2], st.word_indices[idx + 1][1]) > 0
         THEN GapScan(idx + 1, idx, st, gaps \cup {prev_matched_idx, idx})
         ELSE GapScan(idx + 1, idx, st, gaps)

Matched(word_indices) == {k \in 0..(Len(word_indices) - 1) : word_indices[k + 1] # None}

SetMin(S) == CHOOSE x \in S : \A y \in S : x <= y

SetMax(S) == CHOOSE x \in S : \A y \in S : x >= y

\* last word index of the ayah that word "idx" belongs to (lines 489-491)
VerseEnd(chapter_ref, idx) ==
    SetMax({e \in idx..(chapter_ref.num_words - 1) :
               \A k \in idx..e : chapter_ref.words[k + 1].ayah = chapter_ref.words[idx + 1].ayah})

\* lines 442-494: gap_segments on return
PostProcess(st) ==
    LET gaps1 == GapScan(0, 0 - 1, st, st.gap_segments)
        matched == Matched(st.word_indices)
        first_matched == SetMin(matched)
        last_matched == SetMax(matched)
        gaps2 == IF matched # {} /\ st.word_indices[first_matched + 1][1] > st.start_pointer
                 THEN gaps1 \cup {first_matched} ELSE gaps1
        chapter_ref == get_chapter_reference(st.chapter_ref)
    IN  IF matched # {} /\ last_matched = Len(st.word_indices) - 1
           /\ st.word_indices[last_matched + 1][2]
                < VerseEnd(chapter_ref, st.word_indices[last_matched + 1][2])
        THEN gaps2 \cup {last_matched} ELSE gaps2

\* ------------------------------------------------------------------------
\* pipeline.py / ui/segments.py : result assembly
\* ------------------------------------------------------------------------
\* number of words of an ayah (the verse word counts are external data that
\* agree with the reference words)
VerseWordCount(surah, ayah) ==
    IF surah \in 1..114
    THEN Cardinality({k \in 1..Len(MappingWords(surah)) : MappingWords(surah)[k].ayah = ayah})
    ELSE 0

\* is_end_of_verse(matched_ref)
is_end_of_verse(ref) ==
    IF ref.kind # "quran" THEN FALSE
    ELSE ref.to[2] >= VerseWordCount(ref.surah, ref.to[1])

\* index of the word at location (ayah, word_num) of a chapter
WordIndexOf(surah, loc) ==
    CHOOSE k \in 1..Len(MappingWords(surah)) :
        MappingWords(surah)[k].ayah = loc[1] /\ MappingWords(surah)[k].word_num = loc[2]

\* get_segment_word_stats(matched_ref) -> (word_count, ayah_span)
get_segment_word_stats(ref) ==
    IF ref.kind # "quran" THEN [word_count |-> 0, ayah_span |-> 1]
    ELSE [word_count |-> WordIndexOf(ref.surah, ref.to) - WordIndexOf(ref.surah, ref.from) + 1,
          ayah_span |-> IF ref.from[1] # ref.to[1] THEN Abs(ref.to[1] - ref.from[1]) + 1 ELSE 1]

\* check_undersegmented(matched_ref, duration)
check_undersegmented(ref, duration) ==
    IF duration < UNDERSEG_MIN_DURATION THEN FALSE
    ELSE get_segment_word_stats(ref).word_count >= UNDERSEG_MIN_WORDS
         \/ get_segment_word_stats(ref).ayah_span >= UNDERSEG_MIN_AYAH_SPAN

SegmentInfo(start_time, end_time, transcribed_text, matched_text, ref, match_score, error, has_missing_words, potentially_undersegmented) ==
    [start_time |-> start_time, end_time |-> end_time,
     transcribed_text |-> transcribed_text, matched_text |-> matched_text,
     matched_ref |-> ref, match_score |-> match_score, error |-> error,
     has_missing_words |-> has_missing_words,
     potentially_undersegmented |-> potentially_undersegmented]

\* score = max(0.0, score - 0.25)
Penalised(score) ==
    IF 4 * score.num - score.den <= 0 THEN ZeroScore
    ELSE Score(4 * score.num - score.den, 4 * score.den)

\* the body of the loop over zip(vad_segments, match_results), lines 505-531
BuildSegment(idx, vads, match_results, texts, gaps, merged) ==
    LET seg == vads[idx + 1]
        res == match_results[idx + 1]
        score == IF idx = Len(vads) - 1 /\ res.ref.kind # "none" /\ ~is_end_of_verse(res.ref)
                 THEN Penalised(res.score) ELSE res.score
        low == score.num <= 0
        \* _merged_end_times.get(idx, seg.end_time)
        consumed == {c \in DOMAIN merged : merged[c] = idx /\ c < Len(vads)}
    IN  SegmentInfo(seg.start_time,
                    IF consumed # {} THEN vads[SetMax(consumed) + 1].end_time ELSE seg.end_time,
                    IF idx < Len(texts) THEN texts[idx + 1] ELSE << >>,
                    IF low THEN "" ELSE res.text,
                    IF low THEN NoRef ELSE res.ref,
                    score,
                    IF low THEN "Low confidence (0%)" ELSE "",
                    idx \in gaps,
                    FALSE)

RECURSIVE BuildSegments(_, _, _, _, _, _)
\* lines 496-531: the SegmentInfo list
BuildSegments(idx, vads, match_results, texts, gaps, merged) ==
    IF idx >= Len(vads) \/ idx >= Len(match_results) THEN << >>
    ELSE IF idx \in DOMAIN merged
         THEN BuildSegments(idx + 1, vads, match_results, texts, gaps, merged)
         ELSE << BuildSegment(idx, vads, match_results, texts, gaps, merged) >>
              \o BuildSegments(idx + 1, vads, match_results, texts, gaps, merged)

\* _split_fused_segments: the case of a segment, "" when it is not split
SplitCase(seg) ==
    IF seg.matched_ref.kind = "special" /\ seg.matched_ref.name = "Isti'adha+Basmala"
    THEN "combined"
    ELSE IF seg.matched_ref.kind = "quran" /\ seg.matched_text = "Basmala verse"
    THEN "fused_basmala"
    ELSE ""

\* one segment after the split; mfa = 0: the forced aligner gave no words,
\* otherwise the offset of the boundary it found inside the segment
SplitSegment(seg, mfa) ==
    LET part(from, to, name) ==
            SegmentInfo(from, to, << >>, name, SpecialRef(name), seg.match_score, "", FALSE, FALSE)
        mid_time == (seg.start_time + seg.end_time) \div 2
        bound == seg.start_time + mfa
    IN  IF SplitCase(seg) = "combined"
        THEN IF mfa = 0
             THEN << part(seg.start_time, mid_time, "Isti'adha"),
                     part(mid_time, seg.end_time, "Basmala") >>
             ELSE << part(seg.start_time, bound, "Isti'adha"),
                     part(bound, seg.end_time, "Basmala") >>
        ELSE IF SplitCase(seg) = "fused_basmala" /\ mfa # 0
        THEN << part(seg.start_time, bound, "Basmala"),
                SegmentInfo(bound, seg.end_time, seg.transcribed_text, "verse", seg.matched_ref,
                            seg.match_score, seg.error, seg.has_missing_words,
                            seg.potentially_undersegmented) >>
        ELSE << seg >>

RECURSIVE split_fused_segments(_, _)
split_fused_segments(segs, mfa) ==
    IF Len(segs) = 0 THEN << >>
    ELSE SplitSegment(Head(segs), mfa) \o split_fused_segments(Tail(segs), mfa)

\* ------------------------------------------------------------------------
\* State
\* ------------------------------------------------------------------------
VARIABLES
    pc,               \* stage of _run_post_vad_pipeline
    phoneme_texts,    \* the ASR phoneme list of every VAD segment
    vad_in,           \* the VAD intervals as handed to the pipeline
    ngram_targets,    \* the verses the n-gram index can vote for
    vad_segments,     \* the interval list after special detection
    special_results, first_quran_idx,
    surah,            \* the initial anchor
    matching,         \* the locals of run_phoneme_matching
    segments,         \* the SegmentInfo list
    dp_in, dp_out, dp_pc,
    entry,            \* the entry point that was called
    outcome,          \* what the entry point returned or raised
    anchor_in,        \* the n-gram index given to find_anchor_by_voting
    anchor_out,       \* the (surah, ayah) it returned
    chapter_cache,    \* _chapter_cache: surah -> ChapterReference object
    callers,          \* the threads calling get_chapter_reference
    builds,           \* how often build_chapter_reference ran, per surah
    received,         \* the (surah, object) pairs the calls returned
    asr_in,           \* segment_audios given to transcribe_batch
    asr_out,          \* its batches and results
    sub_raw,          \* the pair entries of phoneme_sub_costs.json, in file order
    sub_costs,        \* the table _load_substitution_costs made of them
    seg_cache,        \* segmenter_model._segmenter_cache
    gpu,              \* zero_gpu: model_device_lock, _models_stale, _active_gpu_leases
    gpu_threads       \* the request threads calling a gpu_with_fallback function

dpvars == <<dp_in, dp_out, dp_pc>>

anchorvars == <<anchor_in, anchor_out>>

cachevars == <<chapter_cache, callers, builds, received>>

asrvars == <<asr_in, asr_out>>

subvars == <<sub_raw, sub_costs>>

gpuvars == <<seg_cache, gpu, gpu_threads>>

auxvars == <<entry, outcome, anchorvars, cachevars, asrvars, subvars, gpuvars>>

\* the variables of the other specifications while they are not in use
AnchorIdle == anchor_in = << >> /\ anchor_out = << >>

EntryIdle == entry = "" /\ outcome = ""

CacheIdle == chapter_cache = << >> /\ callers = << >> /\ builds = << >> /\ received = {}

AsrIdle == asr_in = << >> /\ asr_out = << >>

SubIdle == sub_raw = << >> /\ sub_costs = << >>

GpuIdle == seg_cache = << >> /\ gpu = << >> /\ gpu_threads = << >>

AuxIdle == EntryIdle /\ AnchorIdle /\ CacheIdle /\ AsrIdle /\ SubIdle /\ GpuIdle

pipevars == <<pc, phoneme_texts, vad_in, ngram_targets, vad_segments, special_results,
              first_quran_idx, surah, matching, segments>>

vars == <<pipevars, dpvars, auxvars>>

\* ------------------------------------------------------------------------
\* Inputs: recitations of at most MaxSegments segments.  The segments of a
\* recitation are taken from one of a few small vocabularies, each with the
\* verses the index can vote for.
\* ------------------------------------------------------------------------
MaxSegments == 3

Vocabularies ==
    { [pool |-> {COMBINED_PHONEMES, ISTIADHA_PHONEMES, BASMALA_PHONEMES, W_A0, SEG_A12},
       targets |-> { <<3, 1>> }],
      [pool |-> {W_A2, SEG_TAHM, SEG_AMIN, ISTIADHA_PHONEMES, BASMALA_PHONEMES},
       targets |-> { <<1, 2>>, <<3, 2>>, <<114, 2>> }],
      [pool |-> {W_A2, COMBINED_PHONEMES, SEG_BV, SEG_N, SEG_G},
       targets |-> { <<3, 2>> }],
      [pool |-> {W_A0, W_A2, SEG_A12, SEG_N, SEG_TAHM},
       targets |-> { <<3, 1>> }],
      [pool |-> {W_A0, W_A1, W_A2, SEG_G},
       targets |-> { <<2, 2>> }],
      [pool |-> {W_A0, W_A1, SEG_N, SEG_QALM},
       targets |-> { <<3, 1>> }] }

\* VAD intervals: a segment every 30 s, lasting 20 s and 10 s in turn
VadInput(n) ==
    [k \in 1..n |-> VadSegment(30 * (k - 1), 30 * (k - 1) + (IF k % 2 = 1 THEN 20 ELSE 10), k - 1)]

\* offsets at which the forced aligner may put a split boundary
MfaOffsets == {2, 4}

Init ==
    /\ \E v \in Vocabularies : \E n \in 1..MaxSegments : \E texts \in [1..n -> v.pool] :
          /\ phoneme_texts = texts
          /\ vad_in = VadInput(n)
          /\ vad_segments = VadInput(n)
          /\ ngram_targets = v.targets
    /\ pc = "special"
    /\ special_results = << >> /\ first_quran_idx = 0 /\ surah = 0
    /\ matching = << >> /\ segments = << >>
    /\ dp_in = << >> /\ dp_out = NoCandidate /\ dp_pc = "off"
    /\ AuxIdle

\* pipeline.py 402-408
DetectSpecials ==
    /\ pc = "special"
    /\ LET d == detect_special_segments(phoneme_texts, vad_segments)
       IN  /\ vad_segments' = d.vad_segments
           /\ special_results' = d.special_results
           /\ first_quran_idx' = d.first_quran_idx
    /\ pc' = "anchor"
    /\ UNCHANGED <<phoneme_texts, vad_in, ngram_targets, surah, matching, segments, dpvars, auxvars>>

\* pipeline.py 410-434 and the entry of run_phoneme_matching
Anchor ==
    /\ pc = "anchor"
    /\ \E a \in find_anchor_by_voting(
                   SubSeq(phoneme_texts, first_quran_idx + 1, Len(phoneme_texts)),
                   ngram_targets, ANCHOR_SEGMENTS) :
          IF a[1] = 0
          THEN \* ValueError("Could not anchor to any chapter")
               /\ pc' = "failed"
               /\ UNCHANGED <<surah, matching>>
          ELSE /\ surah' = a[1]
               /\ matching' = InitLocals(a[1], first_quran_idx, special_results,
                                  verse_to_word_index(get_chapter_reference(a[1]), a[2]))
               /\ pc' = "matching"
    /\ UNCHANGED <<phoneme_texts, vad_in, ngram_targets, vad_segments, special_results,
                   first_quran_idx, segments, dpvars, auxvars>>

\* whether this iteration can reach a call of find_anchor_by_voting
MayAnchor(st) ==
    /\ st.skip_count = 0 /\ st.tahmeed_merge_skip = 0
    /\ \/ st.transition_mode
       \/ st.chapter_ref = 1
       \/ st.consecutive_failures + 1 >= MAX_CONSECUTIVE_FAILURES

\* one iteration of the main loop of run_phoneme_matching
Step ==
    /\ pc = "matching"
    /\ matching.i < Len(phoneme_texts) - first_quran_idx
    /\ \E pick \in (IF MayAnchor(matching) THEN ngram_targets \cup { <<0, 0>> } ELSE { <<0, 0>> }) :
          matching' = LoopBody(matching, phoneme_texts, first_quran_idx, ngram_targets, pick)
    /\ UNCHANGED <<pc, phoneme_texts, vad_in, ngram_targets, vad_segments, special_results,
                   first_quran_idx, surah, segments, dpvars, auxvars>>

\* the end of run_phoneme_matching: gap post-processing and return
Finish ==
    /\ pc = "matching"
    /\ matching.i >= Len(phoneme_texts) - first_quran_idx
    /\ matching' = [matching EXCEPT !.gap_segments = PostProcess(matching)]
    /\ pc' = "build"
    /\ UNCHANGED <<phoneme_texts, vad_in, ngram_targets, vad_segments, special_results,
                   first_quran_idx, surah, segments, dpvars, auxvars>>

\* pipeline.py 477-531: the SegmentInfo list
Build ==
    /\ pc = "build"
    /\ segments' = BuildSegments(0, vad_segments, matching.results, phoneme_texts,
                                 matching.gap_segments, matching.merged_into)
    /\ pc' = "split"
    /\ UNCHANGED <<phoneme_texts, vad_in, ngram_targets, vad_segments, special_results,
                   first_quran_idx, surah, matching, dpvars, auxvars>>

\* pipeline.py 533-738: the split of fused segments and the report
Split ==
    /\ pc = "split"
    /\ \E mfa \in (IF \E k \in 1..Len(segments) : SplitCase(segments[k]) # ""
                   THEN MfaOffsets \cup {0} ELSE {0}) :
          segments' = split_fused_segments(segments, mfa)
    /\ pc' = "done"
    /\ UNCHANGED <<phoneme_texts, vad_in, ngram_targets, vad_segments, special_results,
                   first_quran_idx, surah, matching, dpvars, auxvars>>

Next == DetectSpecials \/ Anchor \/ Step \/ Finish \/ Build \/ Split

Spec == Init /\ [][Next]_vars

\* ------------------------------------------------------------------------
\* SpecDP: the DP engine as a pure function of bounded inputs
\* ------------------------------------------------------------------------
MaxAsrLen == 3

MaxRefLen == 4

DPAlphabet == {"a", "b"}

DPSeqs(n) == UNION {[1..k -> DPAlphabet] : k \in 1..n}

\* word lengths (1 or 2 phonemes per word), total at most MaxRefLen
RECURSIVE SumSeq(_)
SumSeq(s) == IF Len(s) = 0 THEN 0 ELSE s[1] + SumSeq(Tail(s))

DPWordLens == {l \in UNION {[1..k -> 1..2] : k \in 1..MaxRefLen} : SumSeq(l) <= MaxRefLen}

\* word index of each phoneme for words of the given lengths, first word = base
RECURSIVE PhoneToWord(_, _)
PhoneToWord(lens, base) ==
    IF Len(lens) = 0 THEN << >>
    ELSE [x \in 1..lens[1] |-> base] \o PhoneToWord(Tail(lens), base + 1)

\* the columns at which a word of the reference begins / ends
RECURSIVE WordOffsets(_, _)
WordOffsets(lens, from) ==
    IF Len(lens) = 0 THEN {from}
    ELSE {from} \cup WordOffsets(Tail(lens), from + lens[1])

DPPrefixLen == 2

InitDP ==
    /\ \E P \in DPSeqs(MaxAsrLen), lens \in DPWordLens, prefix \in BOOLEAN, unit \in BOOLEAN :
         \E R \in [1..(SumSeq(lens) + (IF prefix THEN DPPrefixLen ELSE 0)) -> DPAlphabet] :
           dp_in = [P |-> P, R |-> R, lens |-> lens, prefix |-> prefix,
                    W |-> (IF prefix THEN [x \in 1..DPPrefixLen |-> 0 - 1] ELSE << >>)
                          \o PhoneToWord(lens, 0),
                    unit |-> unit, expected |-> Len(lens) \div 2]
    /\ dp_out = NoCandidate
    /\ dp_pc = "ready"
    /\ pc = "dp"
    /\ phoneme_texts = << >> /\ vad_in = << >> /\ ngram_targets = {}
    /\ vad_segments = << >> /\ special_results = << >> /\ first_quran_idx = 0
    /\ surah = 0 /\ matching = << >> /\ segments = << >>
    /\ AuxIdle

\* one call of align_with_word_boundaries, with unit costs or the configured ones
RunDP ==
    /\ dp_pc = "ready"
    /\ dp_out' = align_with_word_boundaries(dp_in.P, dp_in.R, dp_in.W, dp_in.expected,
                     START_PRIOR_WEIGHT,
                     IF dp_in.unit THEN 10 ELSE COST_SUBSTITUTION,
                     IF dp_in.unit THEN 10 ELSE COST_DELETION,
                     IF dp_in.unit THEN 10 ELSE COST_INSERTION)
    /\ dp_pc' = "done"
    /\ UNCHANGED <<dp_in, pipevars, auxvars>>

NextDP == RunDP

SpecDP == InitDP /\ [][NextDP]_vars

\* ------------------------------------------------------------------------
\* SpecEntry: the entry points of the pipeline, over interval lists that may
\* be empty.  A call that gets past the entry runs the pipeline above.
\* ------------------------------------------------------------------------
EntryPoints == {"process_audio", "resegment_audio", "retranscribe_audio", "realign_audio"}

\* the entry points that test the interval list themselves before they call
\* _run_post_vad_pipeline (pipeline.py 838 and 933)
ChecksIntervals == {"process_audio", "resegment_audio"}

\* what _run_post_vad_pipeline returns for an empty interval list
NoSpeechResult == << "No speech segments detected in audio", [segments |-> << >>], "None" >>

\* html, json_output, seg_dir, log_row = _run_post_vad_pipeline(...)
Unpack(result) == IF Len(result) = 4 THEN "report" ELSE "ValueError"

MaxEntrySegments == 2

EntryVocabulary == [pool |-> {W_A0, W_A2, SEG_A12, SEG_N, SEG_TAHM}, targets |-> { <<3, 1>> }]

InitEntry ==
    /\ entry \in EntryPoints
    /\ \E n \in 0..MaxEntrySegments : \E texts \in [1..n -> EntryVocabulary.pool] :
          /\ phoneme_texts = texts
          /\ vad_in = VadInput(n)
          /\ vad_segments = VadInput(n)
    /\ ngram_targets = EntryVocabulary.targets
    /\ pc = "entry" /\ outcome = ""
    /\ special_results = << >> /\ first_quran_idx = 0 /\ surah = 0
    /\ matching = << >> /\ segments = << >>
    /\ dp_in = << >> /\ dp_out = NoCandidate /\ dp_pc = "off"
    /\ AnchorIdle /\ CacheIdle /\ AsrIdle /\ SubIdle /\ GpuIdle

\* the entry point up to the ASR stage of _run_post_vad_pipeline
Enter ==
    /\ pc = "entry"
    /\ IF Len(vad_in) > 0
       THEN pc' = "special" /\ UNCHANGED outcome
       ELSE IF entry \in ChecksIntervals
            THEN pc' = "returned" /\ outcome' = "no_speech"
            ELSE /\ outcome' = Unpack(NoSpeechResult)
                 /\ pc' = IF Unpack(NoSpeechResult) = "report" THEN "returned" ELSE "raised"
    /\ UNCHANGED <<phoneme_texts, vad_in, ngram_targets, vad_segments, special_results,
                   first_quran_idx, surah, matching, segments, dpvars, entry, anchorvars, cachevars, asrvars, subvars, gpuvars>>

\* the end of the entry point: the report, or the error of the anchor
Return ==
    /\ pc \in {"done", "failed"}
    /\ outcome' = IF pc = "done" THEN "report" ELSE "ValueError"
    /\ pc' = IF pc = "done" THEN "returned" ELSE "raised"
    /\ UNCHANGED <<phoneme_texts, vad_in, ngram_targets, vad_segments, special_results,
                   first_quran_idx, surah, matching, segments, dpvars, entry, anchorvars, cachevars, asrvars, subvars, gpuvars>>

NextEntry == Enter \/ DetectSpecials \/ Anchor \/ Step \/ Finish \/ Build \/ Split \/ Return

SpecEntry == InitEntry /\ [][NextEntry]_vars

\* ------------------------------------------------------------------------
\* SpecAnchor: find_anchor_by_voting computed on a small n-gram index.
\* Weights are in units of 1/WEIGHT_UNIT, the trim ratio is per mille.
\* ------------------------------------------------------------------------
ANCHOR_RUN_TRIM_RATIO == 200

ANCHOR_TOP_CANDIDATES == 20

WEIGHT_UNIT == 6

\* lines 97-102: the phonemes of the non-empty ones among the first n_segments
\* segments of the list
RECURSIVE Combined(_, _, _)
Combined(texts, k, n_segments) ==
    IF k > Len(texts) \/ k > n_segments THEN << >>
    ELSE (IF Len(texts[k]) > 0 THEN texts[k] ELSE << >>) \o Combined(texts, k + 1, n_segments)

\* AsrNgrams without the last n-gram
AsrNgramsButLast(combined, n) ==
    [i \in 1..Max2(0, Len(combined) - n) |-> SubSeq(combined, i, i + n - 1)]

\* lines 114-117
AsrNgrams(combined, n) ==
    [i \in 1..Max2(0, Len(combined) - n + 1) |-> SubSeq(combined, i, i + n - 1)]

\* d[key] += w on a defaultdict(float); the dict keeps the order of first insertion
AddWeight(d, key, w) ==
    IF \E i \in 1..Len(d) : d[i].key = key
    THEN [i \in 1..Len(d) |-> IF d[i].key = key THEN [d[i] EXCEPT !.w = @ + w] ELSE d[i]]
    ELSE Append(d, [key |-> key, w |-> w])

\* lines 135-136: one n-gram votes for every position of its list
RECURSIVE VoteFor(_, _, _, _)
VoteFor(votes, positions, k, weight) ==
    IF k > Len(positions) THEN votes
    ELSE VoteFor(AddWeight(votes, positions[k], weight), positions, k + 1, weight)

\* lines 126-136
RECURSIVE CastVotes(_, _, _, _)
CastVotes(votes, asr_ngrams, k, ngram_index) ==
    IF k > Len(asr_ngrams) THEN votes
    ELSE IF asr_ngrams[k] \notin DOMAIN ngram_index.ngram_positions
         THEN CastVotes(votes, asr_ngrams, k + 1, ngram_index)
         ELSE CastVotes(VoteFor(votes, ngram_index.ngram_positions[asr_ngrams[k]], 1,
                                WEIGHT_UNIT \div ngram_index.ngram_counts[asr_ngrams[k]]),
                        asr_ngrams, k + 1, ngram_index)

\* lines 149-151
RECURSIVE SurahTotals(_, _, _)
SurahTotals(surah_totals, votes, k) ==
    IF k > Len(votes) THEN surah_totals
    ELSE SurahTotals(AddWeight(surah_totals, votes[k].key[1], votes[k].w), votes, k + 1)

\* line 153: sorted(..., reverse=True) is stable, the first of equal totals stays first
RECURSIVE RankSurahs(_)
RankSurahs(surah_totals) ==
    IF Len(surah_totals) = 0 THEN << >>
    ELSE LET first == CHOOSE i \in 1..Len(surah_totals) :
                         /\ \A j \in 1..Len(surah_totals) : surah_totals[j].w <= surah_totals[i].w
                         /\ \A j \in 1..(i - 1) : surah_totals[j].w < surah_totals[i].w
         IN  << surah_totals[first] >>
             \o RankSurahs(SubSeq(surah_totals, 1, first - 1)
                           \o SubSeq(surah_totals, first + 1, Len(surah_totals)))

\* lines 167-170
AyahWeights(votes, s) ==
    [a \in {votes[i].key[2] : i \in {j \in 1..Len(votes) : votes[j].key[1] = s}} |->
        votes[CHOOSE i \in 1..Len(votes) : votes[i].key = <<s, a>>].w]

RECURSIVE RunWeight(_, _, _)
RunWeight(ayah_weights, from, to) ==
    IF from > to THEN 0 ELSE ayah_weights[from] + RunWeight(ayah_weights, from + 1, to)

\* lines 64-66 and 68-70: the two trimming loops
\* a leading trim that stops after one ayah
TrimStartOnce(ayah_weights, best_start, best_end, max_w) ==
    IF best_start < best_end /\ 1000 * ayah_weights[best_start] < ANCHOR_RUN_TRIM_RATIO * max_w
    THEN best_start + 1
    ELSE best_start

RECURSIVE TrimStart(_, _, _, _)
TrimStart(ayah_weights, best_start, best_end, max_w) ==
    IF best_start < best_end /\ 1000 * ayah_weights[best_start] < ANCHOR_RUN_TRIM_RATIO * max_w
    THEN TrimStart(ayah_weights, best_start + 1, best_end, max_w)
    ELSE best_start

RECURSIVE TrimEnd(_, _, _, _)
TrimEnd(ayah_weights, best_start, best_end, max_w) ==
    IF best_end > best_start /\ 1000 * ayah_weights[best_end] < ANCHOR_RUN_TRIM_RATIO * max_w
    THEN TrimEnd(ayah_weights, best_start, best_end - 1, max_w)
    ELSE best_end

\* _find_best_contiguous_run: <<start, end, weight>> of the heaviest run of
\* consecutive ayahs (the first of the heaviest), trimmed at both ends
find_best_contiguous_run(ayah_weights) ==
    LET ayahs  == DOMAIN ayah_weights
        starts == {a \in ayahs : a - 1 \notin ayahs}
        EndOfRun(a) == CHOOSE e \in ayahs : /\ e >= a /\ e + 1 \notin ayahs
                                           /\ \A x \in a..e : x \in ayahs
        W(a)   == RunWeight(ayah_weights, a, EndOfRun(a))
    IN  IF ayahs = {} THEN <<0, 0, 0>>
        ELSE LET run   == CHOOSE a \in starts : \A b \in starts : W(b) < W(a) \/ (W(b) = W(a) /\ a <= b)
                 max_w == CHOOSE w \in {ayah_weights[a] : a \in run..EndOfRun(run)} :
                             \A a \in run..EndOfRun(run) : ayah_weights[a] <= w
                 s     == TrimStart(ayah_weights, run, EndOfRun(run), max_w)
                 e     == TrimEnd(ayah_weights, s, EndOfRun(run), max_w)
             IN  \* lines 65 and 69: best_weight loses the weight of every trimmed ayah
                 <<s, e, W(run) - RunWeight(ayah_weights, run, s - 1)
                                - RunWeight(ayah_weights, e + 1, EndOfRun(run))>>

\* lines 165-179: the candidate surah with the heaviest run, the first of equals
RECURSIVE BestRun(_, _, _, _)
BestRun(best, top_surahs, k, votes) ==
    IF k > Len(top_surahs) THEN best
    ELSE LET run == find_best_contiguous_run(AyahWeights(votes, top_surahs[k].key))
         IN  BestRun(IF run[3] > best.run_weight
                     THEN [surah |-> top_surahs[k].key, run_start |-> run[1], run_weight |-> run[3]]
                     ELSE best,
                     top_surahs, k + 1, votes)

\* find_anchor_by_voting on a given index
anchor_by_voting(texts, ngram_index, n_segments) ==
    LET votes == CastVotes(<< >>, AsrNgrams(Combined(texts, 1, n_segments), ngram_index.ngram_size),
                           1, ngram_index)
    IN  IF Len(votes) = 0 THEN <<0, 0>>
        ELSE LET ranked == RankSurahs(SurahTotals(<< >>, votes, 1))
                 best   == BestRun([surah |-> 0, run_start |-> 0, run_weight |-> 0 - WEIGHT_UNIT],
                                   SubSeq(ranked, 1, Min2(ANCHOR_TOP_CANDIDATES, Len(ranked))),
                                   1, votes)
             IN  <<best.surah, best.run_start>>

\* two small indexes, of 2-grams and of 3-grams
AnchorIndexes ==
    { [ngram_size |-> 2,
       ngram_positions |-> ( <<"a", "b">> :> << <<1, 1>> >>
                          @@ <<"b", "a">> :> << <<1, 2>>, <<2, 1>> >>
                          @@ <<"b", "b">> :> << <<2, 1>>, <<2, 2>>, <<3, 2>> >> ),
       ngram_counts |-> ( <<"a", "b">> :> 1 @@ <<"b", "a">> :> 2 @@ <<"b", "b">> :> 3 )],
      [ngram_size |-> 3,
       ngram_positions |-> ( <<"a", "b", "b">> :> << <<3, 1>> >>
                          @@ <<"b", "b", "a">> :> << <<3, 1>>, <<3, 2>> >> ),
       ngram_counts |-> ( <<"a", "b", "b">> :> 1 @@ <<"b", "b", "a">> :> 2 )] }

AnchorPool == { << >>, <<"a", "a">>, <<"a", "b">>, <<"b", "b", "a">> }

MaxAnchorTexts == 6

InitAnchor ==
    /\ anchor_in \in AnchorIndexes
    /\ \E n \in 1..MaxAnchorTexts : \E texts \in [1..n -> AnchorPool] :
          /\ phoneme_texts = texts
          /\ vad_in = VadInput(n)
          /\ vad_segments = VadInput(n)
    /\ anchor_out = << >>
    /\ pc = "anchor"
    /\ ngram_targets = {}
    /\ special_results = << >> /\ first_quran_idx = 0 /\ surah = 0
    /\ matching = << >> /\ segments = << >>
    /\ dp_in = << >> /\ dp_out = NoCandidate /\ dp_pc = "off"
    /\ EntryIdle /\ CacheIdle /\ AsrIdle /\ SubIdle /\ GpuIdle

\* pipeline.py 410-434 with the vote computed on the index
AnchorVote ==
    /\ pc = "anchor"
    /\ anchor_out' = anchor_by_voting(SubSeq(phoneme_texts, first_quran_idx + 1, Len(phoneme_texts)),
                                      anchor_in, ANCHOR_SEGMENTS)
    /\ IF anchor_out'[1] = 0
       THEN \* ValueError("Could not anchor to any chapter")
            /\ pc' = "failed"
            /\ UNCHANGED <<surah, matching>>
       ELSE /\ surah' = anchor_out'[1]
            /\ matching' = InitLocals(anchor_out'[1], first_quran_idx, special_results,
                               verse_to_word_index(get_chapter_reference(anchor_out'[1]),
                                                   anchor_out'[2]))
            /\ pc' = "matching"
    /\ UNCHANGED <<phoneme_texts, vad_in, ngram_targets, vad_segments, special_results,
                   first_quran_idx, segments, dpvars, entry, outcome, anchor_in, cachevars, asrvars, subvars, gpuvars>>

NextAnchor == AnchorVote

SpecAnchor == InitAnchor /\ [][NextAnchor]_vars

\* ------------------------------------------------------------------------
\* SpecCache: concurrent calls of get_chapter_reference.  The function takes
\* no lock, so a thread can be preempted between any two of its steps: the
\* membership test, the build, the store and the final read.
\* ------------------------------------------------------------------------
MaxCallers == 2

MaxCalls == 2

CacheSurahs == {1, 2}

\* the variables of the pipeline while it is not running
PipeIdle(label) ==
    /\ pc = label
    /\ phoneme_texts = << >> /\ vad_in = << >> /\ ngram_targets = {}
    /\ vad_segments = << >> /\ special_results = << >> /\ first_quran_idx = 0
    /\ surah = 0 /\ matching = << >> /\ segments = << >>
    /\ dp_in = << >> /\ dp_out = NoCandidate /\ dp_pc = "off"

\* the cache holds the chapters of the pickle, if any; an object is named by
\* its surah and the number of the build that made it (0: loaded)
InitCache ==
    /\ \E loaded \in SUBSET CacheSurahs : chapter_cache = [s \in loaded |-> <<s, 0>>]
    /\ callers = [t \in 1..MaxCallers |-> [at |-> "idle", surah |-> 0, built |-> << >>, calls |-> 0]]
    /\ builds = [s \in CacheSurahs |-> 0]
    /\ received = {}
    /\ PipeIdle("cache")
    /\ EntryIdle /\ AnchorIdle /\ AsrIdle /\ SubIdle /\ GpuIdle

cacherest == <<pipevars, dpvars, entry, outcome, anchorvars, asrvars, subvars, gpuvars>>

\* a thread calls get_chapter_reference(s)
Call(t, s) ==
    /\ callers[t].at = "idle" /\ callers[t].calls < MaxCalls
    /\ callers' = [callers EXCEPT ![t] = [@ EXCEPT !.at = "test", !.surah = s, !.calls = @ + 1]]
    /\ UNCHANGED <<chapter_cache, builds, received, cacherest>>

\* line 28: if surah not in _chapter_cache
Test(t) ==
    /\ callers[t].at = "test"
    /\ callers' = [callers EXCEPT ![t].at = IF callers[t].surah \in DOMAIN chapter_cache
                                            THEN "return" ELSE "build"]
    /\ UNCHANGED <<chapter_cache, builds, received, cacherest>>

\* lines 30-33: build_chapter_reference(surah) makes a new object
BuildReference(t) ==
    /\ callers[t].at = "build"
    /\ builds' = [builds EXCEPT ![callers[t].surah] = @ + 1]
    /\ callers' = [callers EXCEPT ![t] = [@ EXCEPT !.at = "store",
                                                   !.built = <<callers[t].surah, builds[callers[t].surah] + 1>>]]
    /\ UNCHANGED <<chapter_cache, received, cacherest>>

\* line 33: _chapter_cache[surah] = ...
Store(t) ==
    /\ callers[t].at = "store"
    /\ chapter_cache' = [s \in DOMAIN chapter_cache \cup {callers[t].surah} |->
                            IF s = callers[t].surah THEN callers[t].built ELSE chapter_cache[s]]
    /\ callers' = [callers EXCEPT ![t].at = "return"]
    /\ UNCHANGED <<builds, received, cacherest>>

\* line 34: return _chapter_cache[surah]
ReturnReference(t) ==
    /\ callers[t].at = "return"
    /\ received' = received \cup { <<callers[t].surah, chapter_cache[callers[t].surah]>> }
    /\ callers' = [callers EXCEPT ![t].at = "idle"]
    /\ UNCHANGED <<chapter_cache, builds, cacherest>>

NextCache ==
    \E t \in 1..MaxCallers :
        \/ \E s \in CacheSurahs : Call(t, s)
        \/ Test(t)
        \/ BuildReference(t)
        \/ Store(t)
        \/ ReturnReference(t)

SpecCache == InitCache /\ [][NextCache]_vars

\* ------------------------------------------------------------------------
\* SpecBatch: transcribe_batch.  A clip is its place in the input and its
\* length in seconds; the acoustic model and the CTC decoding are a function
\* Decode of the clip.  Indices are 0-based as in the source.
\* ------------------------------------------------------------------------
MAX_BATCH_SECONDS == 600

MAX_PAD_WASTE == 200

MIN_BATCH_SIZE == 8

\* sorted(range(len(segment_audios)), key=lambda i: durations[i]): a stable sort
RECURSIVE SortedIndices(_, _)
SortedIndices(indices, durations) ==
    IF indices = {} THEN << >>
    ELSE LET first == CHOOSE i \in indices :
                         \A k \in indices : \/ durations[i + 1] < durations[k + 1]
                                            \/ durations[i + 1] = durations[k + 1] /\ i <= k
         IN  << first >> \o SortedIndices(indices \ {first}, durations)

\* a test that never finds the limit exceeded
NeverExceeded(new_seconds, new_size, max_dur) == FALSE

\* new_seconds > MAX_BATCH_SECONDS
SecondsExceeded(new_seconds, new_size, max_dur) == new_seconds > MAX_BATCH_SECONDS

\* pad_waste > MAX_PAD_WASTE with
\* pad_waste = 1.0 - new_seconds / (new_size * max_dur) if max_dur > 0 else 0.0
WasteExceeded(new_seconds, new_size, max_dur) ==
    /\ max_dur > 0
    /\ 1000 * (new_size * max_dur - new_seconds) > MAX_PAD_WASTE * new_size * max_dur

\* a batch may be cut whatever its size
AnySize(current) == TRUE

\* len(current) >= MIN_BATCH_SIZE
LargeEnough(current) == Len(current) >= MIN_BATCH_SIZE

\* the body of the loop of build_batches for index i
BatchStep(b, i, durations) ==
    IF Len(b.current) = 0
    THEN [b EXCEPT !.current = << i >>, !.current_seconds = durations[i + 1]]
    ELSE IF /\ \/ SecondsExceeded(b.current_seconds + durations[i + 1], Len(b.current) + 1, durations[i + 1])
               \/ WasteExceeded(b.current_seconds + durations[i + 1], Len(b.current) + 1, durations[i + 1])
            /\ LargeEnough(b.current)
         THEN [batches |-> Append(b.batches, b.current), current |-> << i >>,
               current_seconds |-> durations[i + 1]]
         ELSE [b EXCEPT !.current = Append(@, i), !.current_seconds = @ + durations[i + 1]]

RECURSIVE BatchLoop(_, _, _, _)
BatchLoop(b, sorted_indices, k, durations) ==
    IF k > Len(sorted_indices) THEN b
    ELSE BatchLoop(BatchStep(b, sorted_indices[k], durations), sorted_indices, k + 1, durations)

build_batches(sorted_indices, durations) ==
    LET b == BatchLoop([batches |-> << >>, current |-> << >>, current_seconds |-> 0],
                       sorted_indices, 1, durations)
    IN  IF Len(b.current) > 0 THEN Append(b.batches, b.current) ELSE b.batches

\* model inference and CTC greedy decoding of one clip
Decode(audio) == << "phonemes of clip", audio.clip >>

\* results[j] = phoneme_list: the row stored at its place in the batch
StoreAtRow(results, batch_idx, j, phoneme_list) ==
    [results EXCEPT ![j] = phoneme_list]

\* results[batch_idx[j]] = phoneme_list
StoreResult(results, batch_idx, j, phoneme_list) ==
    [results EXCEPT ![batch_idx[j] + 1] = phoneme_list]

\* the loop over the rows of one batch
RECURSIVE DecodeRows(_, _, _, _)
DecodeRows(results, batch_idx, j, segment_audios) ==
    IF j > Len(batch_idx) THEN results
    ELSE DecodeRows(StoreResult(results, batch_idx, j, Decode(segment_audios[batch_idx[j] + 1])),
                    batch_idx, j + 1, segment_audios)

\* _transcribe_batch_pytorch: the loop over the batches
RECURSIVE TranscribeBatches(_, _, _, _)
TranscribeBatches(results, batches, k, segment_audios) ==
    IF k > Len(batches) THEN results
    ELSE TranscribeBatches(DecodeRows(results, batches[k], 1, segment_audios),
                           batches, k + 1, segment_audios)

\* durations = [len(audio) / 16000.0 for audio in segment_audios]
Durations(segment_audios) == [i \in 1..Len(segment_audios) |-> segment_audios[i].seconds]

MaxClips == 9

ClipSeconds == {10, 40, 70}

InitBatch ==
    /\ \E n \in 0..MaxClips : \E secs \in [1..n -> ClipSeconds] :
          asr_in = [i \in 1..n |-> [clip |-> i - 1, seconds |-> secs[i]]]
    /\ asr_out = [at |-> "sort", batches |-> << >>, results |-> << >>]
    /\ PipeIdle("asr")
    /\ EntryIdle /\ AnchorIdle /\ CacheIdle /\ SubIdle /\ GpuIdle

batchrest == <<pipevars, dpvars, entry, outcome, anchorvars, cachevars, subvars, gpuvars>>

\* transcribe_batch up to the batches; an empty input returns at once
Batch ==
    /\ asr_out.at = "sort"
    /\ asr_out' = IF Len(asr_in) = 0
                  THEN [asr_out EXCEPT !.at = "done"]
                  ELSE [asr_out EXCEPT !.at = "infer",
                                       !.batches = build_batches(
                                           SortedIndices(0..(Len(asr_in) - 1), Durations(asr_in)),
                                           Durations(asr_in))]
    /\ UNCHANGED <<asr_in, batchrest>>

\* _transcribe_batch_pytorch and the return of transcribe_batch
Transcribe ==
    /\ asr_out.at = "infer"
    /\ asr_out' = [asr_out EXCEPT !.at = "done",
                                  !.results = TranscribeBatches([i \in 1..Len(asr_in) |-> << >>],
                                                                asr_out.batches, 1, asr_in)]
    /\ UNCHANGED <<asr_in, batchrest>>

NextBatch == Batch \/ Transcribe

SpecBatch == InitBatch /\ [][NextBatch]_vars

\* ------------------------------------------------------------------------
\* SpecCtc: ids_to_phoneme_list on the tokens of one clip.  PAD_TOK is the
\* tokenizer's pad token, which is the CTC blank.
\* ------------------------------------------------------------------------
PAD_TOK == "[PAD]"

WORD_DELIMITER == "|"

\* the body of the loop with a blank or delimiter that leaves prev alone
CtcStepKeepPrev(c, t) ==
    IF t = PAD_TOK \/ t = WORD_DELIMITER THEN c
    ELSE IF t = c.prev THEN c
    ELSE [collapsed |-> Append(c.collapsed, t), prev |-> t]

\* the body of the loop of ids_to_phoneme_list for token t
CtcStep(c, t) ==
    IF t = PAD_TOK THEN [c EXCEPT !.prev = t]
    ELSE IF t = WORD_DELIMITER THEN [c EXCEPT !.prev = t]
    ELSE IF t = c.prev THEN c
    ELSE [collapsed |-> Append(c.collapsed, t), prev |-> t]

RECURSIVE CtcLoop(_, _, _)
CtcLoop(c, toks, k) ==
    IF k > Len(toks) THEN c ELSE CtcLoop(CtcStep(c, toks[k]), toks, k + 1)

ids_to_phoneme_list(toks) ==
    IF Len(toks) = 0 THEN << >>
    ELSE CtcLoop([collapsed |-> << >>, prev |-> "None"], toks, 1).collapsed

MaxTokens == 5

CtcTokens == {"a", "b", PAD_TOK, WORD_DELIMITER}

InitCtc ==
    /\ \E n \in 0..MaxTokens : asr_in \in [1..n -> CtcTokens]
    /\ asr_out = [at |-> "tokens", collapsed |-> << >>]
    /\ PipeIdle("asr")
    /\ EntryIdle /\ AnchorIdle /\ CacheIdle /\ SubIdle /\ GpuIdle

CtcDecode ==
    /\ asr_out.at = "tokens"
    /\ asr_out' = [at |-> "decoded", collapsed |-> ids_to_phoneme_list(asr_in)]
    /\ UNCHANGED <<asr_in, batchrest>>

NextCtc == CtcDecode

SpecCtc == InitCtc /\ [][NextCtc]_vars

\* ------------------------------------------------------------------------
\* SpecSub: _load_substitution_costs on the entries of a cost file, and
\* get_sub_cost on the table it returns.  An entry is one "a|b": cost line
\* with the key of its section; costs are in tenths.
\* ------------------------------------------------------------------------
\* costs[(a, b)] = c alone
StoreOneOrdering(costs, e) ==
    [pair \in DOMAIN costs \cup { <<e.a, e.b>> } |->
        IF pair = <<e.a, e.b>> THEN e.cost ELSE costs[pair]]

\* costs[(a, b)] = c; costs[(b, a)] = c
StorePair(costs, e) ==
    [pair \in DOMAIN costs \cup { <<e.a, e.b>>, <<e.b, e.a>> } |->
        IF pair \in { <<e.a, e.b>>, <<e.b, e.a>> } THEN e.cost ELSE costs[pair]]

\* the loops over raw.items() and section.items()
RECURSIVE LoadEntries(_, _, _)
LoadEntries(costs, raw, k) ==
    IF k > Len(raw) THEN costs
    ELSE IF raw[k].section = "_meta" THEN LoadEntries(costs, raw, k + 1)
    ELSE LoadEntries(StorePair(costs, raw[k]), raw, k + 1)

load_substitution_costs(raw) == LoadEntries([pair \in {} |-> 0], raw, 1)

MaxPairEntries == 2

SubPhonemes == {"a", "b", "c"}

SubEntries ==
    [section : {"_meta", "pairs"}, a : {"a", "b"}, b : {"a", "b", "c"}, cost : {3, 7}]

InitSub ==
    /\ \E n \in 0..MaxPairEntries : sub_raw \in [1..n -> SubEntries]
    /\ sub_costs = [at |-> "file", table |-> << >>]
    /\ PipeIdle("load")
    /\ EntryIdle /\ AnchorIdle /\ CacheIdle /\ AsrIdle /\ GpuIdle

\* the module-level _SUBSTITUTION_COSTS = _load_substitution_costs()
LoadCosts ==
    /\ sub_costs.at = "file"
    /\ sub_costs' = [at |-> "loaded", table |-> load_substitution_costs(sub_raw)]
    /\ UNCHANGED <<sub_raw, pipevars, dpvars, entry, outcome, anchorvars, cachevars, asrvars, gpuvars>>

NextSub == LoadCosts

SpecSub == InitSub /\ [][NextSub]_vars

\* ------------------------------------------------------------------------
\* The Basmala-fused decision on its own (alignment_pipeline.py 305-332):
\* the plain alignment in hand and the alignment against the Basmala-prefixed
\* reference are the inputs, as align_segment returns them: None, or a match
\* with its words, its normalised cost (edit_cost / denom) and basmala_consumed.
\* ------------------------------------------------------------------------
FusedCosts == {0, 10, 20}

FusedDenoms == {8, 16}

\* the alignments align_segment can hand back for surah 3; the plain
\* attempt has no prefix to consume
Alignments(consumed) ==
    {NoAlignment} \cup
    {[ok |-> TRUE, start_word_idx |-> s, end_word_idx |-> e, edit_cost |-> c, denom |-> d,
      j_start |-> 0, best_j |-> 0, basmala_consumed |-> b, win_start |-> 0] :
        s \in {0}, e \in 0..(get_chapter_reference(3).num_words - 1),
        c \in FusedCosts, d \in FusedDenoms, b \in consumed}

InitFused ==
    /\ \E alignment \in Alignments({FALSE}), basmala_alignment \in Alignments(BOOLEAN) :
         dp_in = [alignment |-> alignment, basmala_alignment |-> basmala_alignment]
    /\ matching = InitLocals(3, 0, << >>, 0)
    /\ dp_out = NoCandidate
    /\ dp_pc = "off"
    /\ pc = "fused-retry"
    /\ phoneme_texts = << >> /\ vad_in = << >> /\ ngram_targets = {}
    /\ vad_segments = << >> /\ special_results = << >> /\ first_quran_idx = 0
    /\ surah = 3 /\ segments = << >>
    /\ AuxIdle

\* lines 309-332 for the first segment after a transition
FusedDecide ==
    /\ pc = "fused-retry"
    /\ matching.is_first_after_transition
    /\ LET c == Fused([FusedAttempt(matching) EXCEPT !.is_first_after_transition = FALSE,
                                                     !.num_segments = @ + 1],
                      dp_in.alignment, dp_in.basmala_alignment)
       IN  /\ matching' = c.st
           /\ dp_out' = [done |-> c.done, alignment |-> c.alignment]
    /\ pc' = "fused-decided"
    /\ UNCHANGED <<phoneme_texts, vad_in, ngram_targets, vad_segments, special_results,
                   first_quran_idx, surah, segments, dp_in, dp_pc, auxvars>>

NextFused == FusedDecide

SpecFused == InitFused /\ [][NextFused]_vars

\* ------------------------------------------------------------------------
\* zero_gpu.py : gpu_with_fallback, and segmenter_model.py : the segmenter
\* cache.  Request threads call run_vad_and_asr_gpu (pipeline.py 58-78), on
\* the GPU path (a lease: func_with_cleanup) or with CPU forced for the
\* request.  Every step is one access to the shared cache or lock.
\*   gpu.owner / gpu.count : model_device_lock (an RLock), 0 = free
\*   gpu.stale             : _models_stale
\*   gpu.leases            : _active_gpu_leases
\*   gpu.zero_gpu          : ZERO_GPU_AVAILABLE;  gpu.cuda : torch.cuda.is_available()
\* ------------------------------------------------------------------------
MaxThreads == 2

MaxRequests == 2

Threads == 1..MaxThreads

EmptySegmenterCache == [model |-> "None", loaded |-> FALSE, device |-> "None"]

IdleThread == [at |-> "idle", forced_cpu |-> FALSE, call |-> 0, ret |-> "unset", failed |-> FALSE, fallback |-> FALSE, requests |-> 0]

InitGpu ==
    /\ seg_cache = EmptySegmenterCache
    /\ \E env \in { <<TRUE, TRUE>>, <<FALSE, TRUE>>, <<FALSE, FALSE>> } :
          gpu = [owner |-> 0, count |-> 0, stale |-> FALSE, leases |-> 0,
                 zero_gpu |-> env[1], cuda |-> env[2]]
    /\ gpu_threads = [t \in Threads |-> IdleThread]
    /\ PipeIdle("gpu")
    /\ EntryIdle /\ AnchorIdle /\ CacheIdle /\ AsrIdle /\ SubIdle

gpurest == <<pipevars, dpvars, entry, outcome, anchorvars, cachevars, asrvars, subvars>>

\* threading.RLock: acquire by thread t, possible when free or already owned
CanAcquire(t) == gpu.owner \in {0, t}

Acquired(t) == [gpu EXCEPT !.owner = t, !.count = @ + 1]

Released == [gpu EXCEPT !.count = @ - 1, !.owner = IF gpu.count = 1 THEN 0 ELSE @]

At(t, place) == gpu_threads[t].at = place

Goto(t, place) == [gpu_threads EXCEPT ![t].at = place]

\* return from load_segmenter: the first call is pipeline.py:64, the second
\* vad.py:38
ReturnFromLoad(t, model, failed) ==
    [gpu_threads EXCEPT ![t].ret = model, ![t].failed = failed,
                        ![t].at = IF gpu_threads[t].call = 1 THEN "move" ELSE "vad"]

\* zero_gpu.py 226-246: wrapper; the request chose the device before
\* (force_cpu_mode, pipeline.py 772-776)
StartRequest(t) ==
    /\ At(t, "idle")
    /\ gpu_threads[t].requests < MaxRequests
    /\ \E forced \in BOOLEAN :
          gpu_threads' =
              [gpu_threads EXCEPT ![t] = [IdleThread EXCEPT !.forced_cpu = forced,
                                                            !.requests = gpu_threads[t].requests + 1,
                                                            !.call = IF forced /\ ~gpu.zero_gpu THEN 1 ELSE 0,
                                                            !.at = IF forced
                                                                   THEN IF gpu.zero_gpu THEN "subprocess"
                                                                        ELSE "ls_check"
                                                                   ELSE "enter"]]
    /\ UNCHANGED <<seg_cache, gpu, gpurest>>

\* zero_gpu.py 233-239: run_in_cpu_subprocess, another process with its own cache
CpuSubprocess(t) ==
    /\ At(t, "subprocess")
    /\ gpu_threads' = Goto(t, "idle")
    /\ UNCHANGED <<seg_cache, gpu, gpurest>>

\* zero_gpu.py 203-204: _enter_gpu_lease
EnterLease(t) ==
    /\ At(t, "enter")
    /\ gpu' = [gpu EXCEPT !.leases = @ + 1]
    /\ gpu_threads' = Goto(t, "acquire")
    /\ UNCHANGED <<seg_cache, gpurest>>

\* zero_gpu.py 205: with model_device_lock
AcquireLease(t) ==
    /\ At(t, "acquire")
    /\ CanAcquire(t)
    /\ gpu' = Acquired(t)
    /\ gpu_threads' = Goto(t, "drain")
    /\ UNCHANGED <<seg_cache, gpurest>>

\* zero_gpu.py 147-162: _drain_stale_models up to invalidate_segmenter_cache
DrainStale(t) ==
    /\ At(t, "drain")
    /\ gpu' = [gpu EXCEPT !.stale = FALSE]
    /\ gpu_threads' = [gpu_threads EXCEPT ![t].call = 1,
                                          ![t].at = IF gpu.stale THEN "inv_test" ELSE "ls_check"]
    /\ UNCHANGED <<seg_cache, gpurest>>

\* segmenter_model.py 108: if _segmenter_cache["model"] is not None
InvalidateTest(t) ==
    /\ At(t, "inv_test")
    /\ gpu_threads' = Goto(t, IF seg_cache.model # "None" THEN "inv_model" ELSE "ls_check")
    /\ UNCHANGED <<seg_cache, gpu, gpurest>>

\* segmenter_model.py 109: _segmenter_cache["model"] = None
InvalidateModel(t) ==
    /\ At(t, "inv_model")
    /\ seg_cache' = [seg_cache EXCEPT !.model = "None"]
    /\ gpu_threads' = Goto(t, "inv_loaded")
    /\ UNCHANGED <<gpu, gpurest>>

\* segmenter_model.py 110-112: processor, loaded and device
InvalidateLoaded(t) ==
    /\ At(t, "inv_loaded")
    /\ seg_cache' = [seg_cache EXCEPT !.loaded = FALSE, !.device = "None"]
    /\ gpu_threads' = Goto(t, "ls_check")
    /\ UNCHANGED <<gpu, gpurest>>

\* segmenter_model.py 128: the unlocked test of load_segmenter
LoadCheck(t) ==
    /\ At(t, "ls_check")
    /\ gpu_threads' = [gpu_threads EXCEPT ![t].ret = "unset", ![t].failed = FALSE,
                                          ![t].at = IF seg_cache.loaded THEN "ls_read" ELSE "ls_lock"]
    /\ UNCHANGED <<seg_cache, gpu, gpurest>>

\* segmenter_model.py 129: return _segmenter_cache["model"], ...
LoadRead(t) ==
    /\ At(t, "ls_read")
    /\ gpu_threads' = ReturnFromLoad(t, seg_cache.model, FALSE)
    /\ UNCHANGED <<seg_cache, gpu, gpurest>>

\* segmenter_model.py 131: with model_device_lock
LoadLock(t) ==
    /\ At(t, "ls_lock")
    /\ CanAcquire(t)
    /\ gpu' = Acquired(t)
    /\ gpu_threads' = Goto(t, "ls_recheck")
    /\ UNCHANGED <<seg_cache, gpurest>>

\* segmenter_model.py 133-134: the test again, under the lock
LoadRecheck(t) ==
    /\ At(t, "ls_recheck")
    /\ IF seg_cache.loaded
       THEN /\ gpu_threads' = ReturnFromLoad(t, seg_cache.model, FALSE)
            /\ gpu' = Released
       ELSE /\ gpu_threads' = Goto(t, "ls_load")
            /\ gpu' = gpu
    /\ UNCHANGED <<seg_cache, gpurest>>

\* segmenter_model.py _get_device_and_dtype
get_device == IF gpu.zero_gpu THEN "cpu" ELSE IF gpu.cuda THEN "cuda" ELSE "cpu"

\* segmenter_model.py 139-165: from_pretrained succeeds and the cache is
\* filled, or it raises and (None, None, 0.0) is returned
LoadModel(t) ==
    /\ At(t, "ls_load")
    /\ \E ok \in BOOLEAN :
          IF ok
          THEN /\ seg_cache' = [model |-> "model", loaded |-> TRUE, device |-> get_device]
               /\ gpu_threads' = ReturnFromLoad(t, "model", FALSE)
          ELSE /\ seg_cache' = seg_cache
               /\ gpu_threads' = ReturnFromLoad(t, "None", TRUE)
    /\ gpu' = Released
    /\ UNCHANGED gpurest

\* segmenter_model.py 54-99: ensure_models_on_gpu (pipeline.py:65)
MoveToGpu(t) ==
    /\ At(t, "move")
    /\ IF gpu_threads[t].forced_cpu \/ ~gpu.cuda
       THEN seg_cache' = seg_cache
       ELSE /\ CanAcquire(t)
            /\ seg_cache' = IF seg_cache.loaded /\ seg_cache.model # "None"
                               /\ seg_cache.device # "cuda"
                            THEN [seg_cache EXCEPT !.device = "cuda"] ELSE seg_cache
    /\ gpu_threads' = [gpu_threads EXCEPT ![t].call = 2, ![t].at = "ls_check"]
    /\ UNCHANGED <<gpu, gpurest>>

\* vad.py 38-41: model is None -> the whole audio is one segment
VadFallback(t) ==
    /\ At(t, "vad")
    /\ gpu_threads' = [gpu_threads EXCEPT ![t].fallback = (gpu_threads[t].ret = "None"),
                                          ![t].at = "infer"]
    /\ UNCHANGED <<seg_cache, gpu, gpurest>>

\* the rest of the body (inference), then zero_gpu.py 209-214 on the GPU
\* path: _cleanup_after_gpu, _exit_gpu_lease and the release of the lock
FinishRequest(t) ==
    /\ At(t, "infer")
    /\ gpu' = IF gpu_threads[t].forced_cpu THEN gpu
              ELSE [Released EXCEPT !.stale = TRUE, !.leases = @ - 1]
    /\ gpu_threads' = Goto(t, "idle")
    /\ UNCHANGED <<seg_cache, gpurest>>

NextGpu ==
    \E t \in Threads :
        \/ StartRequest(t) \/ CpuSubprocess(t) \/ EnterLease(t) \/ AcquireLease(t)
        \/ DrainStale(t) \/ InvalidateTest(t) \/ InvalidateModel(t) \/ InvalidateLoaded(t)
        \/ LoadCheck(t) \/ LoadRead(t) \/ LoadLock(t) \/ LoadRecheck(t) \/ LoadModel(t)
        \/ MoveToGpu(t) \/ VadFallback(t) \/ FinishRequest(t)

SpecGpu == InitGpu /\ [][NextGpu]_vars

\* ------------------------------------------------------------------------
\* SpecRun: _find_best_contiguous_run applied to the vote weights of one
\* surah, {ayah_number: vote_weight}, the weights in units of 1/WEIGHT_UNIT.
\* ------------------------------------------------------------------------
MaxAyah == 5

AyahWeightPool == {1, 2, 6, 12}

InitRun ==
    /\ \E ayahs \in SUBSET (1..MaxAyah) : anchor_in \in [ayahs -> AyahWeightPool]
    /\ anchor_out = << >>
    /\ PipeIdle("run")
    /\ EntryIdle /\ CacheIdle /\ AsrIdle /\ SubIdle /\ GpuIdle

\* phoneme_anchor.py 167-171: the run of one candidate surah
BestContiguousRun ==
    /\ pc = "run"
    /\ anchor_out' = find_best_contiguous_run(anchor_in)
    /\ pc' = "run-found"
    /\ UNCHANGED <<phoneme_texts, vad_in, ngram_targets, vad_segments, special_results,
                   first_quran_idx, surah, matching, segments, dpvars, entry, outcome,
                   anchor_in, cachevars, asrvars, subvars, gpuvars>>

NextRun == BestContiguousRun

SpecRun == InitRun /\ [][NextRun]_vars

\* ------------------------------------------------------------------------
\* SpecTier: one iteration of the main loop of run_phoneme_matching on a
\* segment of at most MaxRetryLen phonemes, drawn from three phonemes of
\* the first word and one foreign phoneme, at every pointer of a three-word
\* chapter.
\* ------------------------------------------------------------------------
MaxRetryLen == 4

RetryAlphabet == {"k", "a", "m", "z"}

InitTier ==
    /\ \E n \in 1..MaxRetryLen : phoneme_texts \in [1..1 -> [1..n -> RetryAlphabet]]
    /\ \E start_pointer \in 0..2 : matching = InitLocals(3, 0, << >>, start_pointer)
    /\ pc = "matching"
    /\ vad_in = VadInput(1) /\ vad_segments = VadInput(1)
    /\ ngram_targets = {}
    /\ special_results = << >> /\ first_quran_idx = 0 /\ surah = 3
    /\ segments = << >>
    /\ dp_in = << >> /\ dp_out = NoCandidate /\ dp_pc = "off"
    /\ AuxIdle

NextTier == Step

SpecTier == InitTier /\ [][NextTier]_vars

\* ------------------------------------------------------------------------
\* SpecQueue: run_phoneme_matching on recitations that end a chapter with
\* their first segment and go on with at most MaxQueueSegments segments out
\* of Amin and the specials: the segments between two chapters.
\* ------------------------------------------------------------------------
MaxQueueSegments == 3

QueuePool == {SEG_AMIN, ISTIADHA_PHONEMES, BASMALA_PHONEMES, COMBINED_PHONEMES}

InitQueue ==
    /\ \E n \in 1..MaxQueueSegments : \E rest \in [1..n -> QueuePool] :
          /\ phoneme_texts = << W_A2 >> \o rest
          /\ vad_in = VadInput(n + 1)
          /\ vad_segments = VadInput(n + 1)
    /\ ngram_targets = { <<3, 1>> }
    /\ \E detected_surah \in {1, 3} :
          /\ surah = detected_surah
          /\ matching = InitLocals(detected_surah, 0, << >>,
                                   verse_to_word_index(get_chapter_reference(detected_surah), 2))
    /\ pc = "matching"
    /\ special_results = << >> /\ first_quran_idx = 0
    /\ segments = << >>
    /\ dp_in = << >> /\ dp_out = NoCandidate /\ dp_pc = "off"
    /\ AuxIdle

NextQueue == Step \/ Finish

SpecQueue == InitQueue /\ [][NextQueue]_vars

\* ------------------------------------------------------------------------
\* Properties of the word-boundary DP (checked under SpecDP)
\* ------------------------------------------------------------------------
\* the columns at which a word of the reference in dp_in begins or ends; the
\* prepended region counts as one word
DPBoundaries ==
    IF dp_in.prefix THEN {0} \cup WordOffsets(dp_in.lens, DPPrefixLen)
    ELSE WordOffsets(dp_in.lens, 0)

\* the non-empty word-bounded ranges <<s, e>> (phonemes s+1 .. e) of the reference
DPWordSpans == {sp \in DPBoundaries \X DPBoundaries : sp[1] < sp[2]}

\* Levenshtein distance, in tenths, of the ASR sequence in dp_in to a range
DPLev(sp) == 10 * levenshtein_distance(dp_in.P, Slice(dp_in.R, sp[1], sp[2]))

\* C3: with every phoneme pair cost equal to 1, the edit_cost returned by the
\* word-boundary DP equals levenshtein(P, R') for some contiguous word-bounded
\* substring R' of R, and no shorter R' achieves a strictly lower cost.
C3_DPCorrectness ==
    (dp_pc = "done" /\ dp_in.unit /\ dp_out.found) =>
        \E sp \in DPWordSpans :
            /\ DPLev(sp) = dp_out.cost
            /\ \A shorter \in DPWordSpans :
                  shorter[2] - shorter[1] < sp[2] - sp[1] => DPLev(shorter) >= dp_out.cost

\* C6: the matched reference range of every alignment the DP returns begins
\* at the first phoneme of a word and ends at the last phoneme of a word, also
\* when it begins in the prepended Basmala region: j_start and best_j are word
\* boundaries of the reference, j_start is not its end and best_j not its start.
C6_BoundaryLaw ==
    (dp_pc = "done" /\ dp_out.found) =>
        /\ dp_out.j_start \in DPBoundaries
        /\ dp_out.best_j \in DPBoundaries
        /\ dp_out.j_start < Len(dp_in.R)
        /\ dp_out.best_j > 0

\* an accepted match that begins in the prepended region and ends after a
\* two-phoneme word, in a reference that has positions inside words
C6_Witness ==
    /\ dp_pc = "done" /\ dp_out.found /\ dp_in.prefix
    /\ Accepts(dp_out.cost, dp_out.denom, MAX_EDIT_DISTANCE)
    /\ dp_out.j_start = 0
    /\ dp_out.best_j = DPPrefixLen + 2
    /\ dp_in.lens[1] = 2

\* ------------------------------------------------------------------------
\* Properties of the pipeline (checked under Spec)
\* ------------------------------------------------------------------------
\* run_phoneme_matching has been entered / has returned
Entered == pc \in {"matching", "build", "split", "done"}

Returned == pc \in {"build", "split", "done"}

\* the branches that emitted a result so far
Branches == {matching.log[k].branch : k \in 1..Len(matching.log)}

\* iteration k (1-based) ended with an accepted alignment
Accepted(k) == matching.log[k].branch \in {"plain", "fused", "tier1", "tier2"}

\* (start_word_idx, end_word_idx) recorded by iteration k
StartOf(k) == matching.word_indices[Len(special_results) + k][1]

EndOf(k) == matching.word_indices[Len(special_results) + k][2]

\* C1: run_phoneme_matching processes the segments phoneme_texts[first_quran_idx:]
\* in input order and emits exactly one result per segment on every control
\* path: after i iterations there are len(special_results) + i results (and
\* as many word_indices), iteration k handled segment first_quran_idx + k, and
\* on return len(results) = len(special_results) + len(phoneme_texts) - first_quran_idx.
\* There are first_quran_idx special results, so result k belongs to segment k.
C1_OneResultPerSegment ==
    Entered =>
        /\ Len(special_results) = first_quran_idx
        /\ Len(matching.results) = Len(special_results) + matching.i
        /\ Len(matching.word_indices) = Len(matching.results)
        /\ Len(matching.log) = matching.i
        /\ \A k \in 1..Len(matching.log) : matching.log[k].seg = first_quran_idx + k - 1
        /\ Returned => Len(matching.results)
                          = Len(special_results) + Len(phoneme_texts) - first_quran_idx

\* a run that has returned after a transition, a Tahmeed placeholder and an
\* accepted alignment
C1_Witness ==
    /\ Returned
    /\ {"transition", "placeholder", "plain"} \subseteq Branches
    /\ Len(matching.results) = 3

\* C2: when segment 0 is detected as a combined Isti'adha+Basmala and split
\* in two, every later input segment k >= 1 is still aligned, and its result,
\* its phonemes and its time interval all appear together at output index
\* k + 1; no input segment is dropped or paired with another one's interval.
C2_CombinedShift ==
    (Returned /\ Len(vad_segments) = Len(vad_in) + 1) =>
        \A k \in 1..(Len(vad_in) - 1) :
            \* output index k + 1 exists in both lists
            /\ k + 2 <= Len(vad_segments)
            /\ k + 2 <= Len(matching.results)
            \* it carries the interval of input segment k ...
            /\ vad_segments[k + 2].start_time = vad_in[k + 1].start_time
            /\ vad_segments[k + 2].end_time = vad_in[k + 1].end_time
            \* ... the result of the iteration that aligned input segment k ...
            /\ matching.log[k].seg = k
            \* ... and its phonemes
            /\ BuildSegment(k + 1, vad_segments, matching.results, phoneme_texts,
                            matching.gap_segments, matching.merged_into).transcribed_text
                   = phoneme_texts[k + 1]

\* pairs <<a, b>> of iterations with consecutive accepted alignments A then B
\* within the same chapter
ConsecutiveAccepted ==
    {p \in (1..Len(matching.log)) \X (1..Len(matching.log)) :
        /\ p[1] < p[2] /\ Accepted(p[1]) /\ Accepted(p[2])
        /\ \A j \in (p[1] + 1)..(p[2] - 1) : ~Accepted(j)
        /\ matching.log[p[1]].chapter = matching.log[p[2]].chapter}

\* no global re-anchor took place between the two alignments
NoReanchorBetween(p) == matching.log[p[1]].jumps = matching.log[p[2]].jumps

\* the lookback of the attempt that accepted iteration k
LookbackOf(k) ==
    IF matching.log[k].branch \in {"tier1", "tier2"} THEN RETRY_LOOKBACK_WORDS
    ELSE LOOKBACK_WORDS

\* C4 as stated: B.start_word_idx >= A.end_word_idx + 1 - K with K = 0 for
\* standard advances, and K bounded by RETRY_LOOKBACK_WORDS only across a
\* global re-anchor boundary.
C4_PointerMonotonicity ==
    Entered =>
        \A p \in ConsecutiveAccepted :
            StartOf(p[2]) >= EndOf(p[1]) + 1
                             - (IF NoReanchorBetween(p) THEN 0 ELSE RETRY_LOOKBACK_WORDS)

\* C4, amended: every accepted alignment starts within the lookback of its
\* attempt from the pointer it was called with; hence for consecutive
\* accepted alignments A then B within the same chapter with no global
\* re-anchor between them, B.start_word_idx >= A.end_word_idx + 1 - K, where
\* K = LOOKBACK_WORDS when B was accepted by the plain or the Basmala-fused
\* attempt and K = RETRY_LOOKBACK_WORDS when it was accepted by a retry tier.
C4_LookbackBound ==
    Entered =>
        /\ \A k \in 1..Len(matching.log) :
              Accepted(k) => StartOf(k) >= matching.log[k].ptr - LookbackOf(k)
        /\ \A p \in ConsecutiveAccepted :
              NoReanchorBetween(p) =>
                  /\ matching.log[p[2]].ptr = EndOf(p[1]) + 1
                  /\ StartOf(p[2]) >= EndOf(p[1]) + 1 - LookbackOf(p[2])

\* a retry tier accepts B exactly RETRY_LOOKBACK_WORDS words before the
\* pointer A left, farther back than LOOKBACK_WORDS
C4_Witness ==
    /\ Entered
    /\ \E p \in ConsecutiveAccepted :
          /\ NoReanchorBetween(p)
          /\ matching.log[p[2]].branch = "tier1"
          /\ StartOf(p[2]) = EndOf(p[1]) + 1 - RETRY_LOOKBACK_WORDS

\* C5: every accepted alignment (plain, retry-tier or Basmala-fused)
\* satisfies 0 <= start_word_idx <= end_word_idx < number of words of the
\* current chapter, so a zero-word match (start = end + 1) is never accepted;
\* word indices are recorded for accepted alignments only.
C5_ChapterBoundary ==
    Entered =>
        \A k \in 1..Len(matching.log) :
            IF Accepted(k)
            THEN /\ 0 <= StartOf(k)
                 /\ StartOf(k) <= EndOf(k)
                 /\ EndOf(k) < get_chapter_reference(matching.log[k].chapter).num_words
            ELSE matching.word_indices[Len(special_results) + k] = None

\* a run with a Basmala-fused match, a match at the relaxed threshold, and a
\* segment whose best candidate (the zero-word one) was rejected by every attempt
C5_Witness ==
    /\ Returned
    /\ {"fused", "tier2", "failure"} \subseteq Branches

\* indices (0-based, as in gap_segments) of the results with word indices
MatchedIdx == Matched(matching.word_indices)

\* j and i are matched segments of one surah with no matched segment between
\* them, and words are missing between the end of j and the start of i
MissingBetween(j, i) ==
    /\ j \in MatchedIdx /\ i \in MatchedIdx /\ j < i
    /\ \A x \in MatchedIdx : ~(j < x /\ x < i)
    /\ matching.results[j + 1].ref.kind = "quran"
    /\ matching.results[i + 1].ref.kind = "quran"
    /\ matching.results[j + 1].ref.surah = matching.results[i + 1].ref.surah
    /\ matching.word_indices[i + 1][1] > matching.word_indices[j + 1][2] + 1

\* the preceding matched segment in the same surah ended more than one word
\* before segment i starts
GapBefore(i) == \E j \in MatchedIdx : MissingBetween(j, i)

\* i is the first matched segment and starts after the start pointer
FirstBoundary(i) ==
    /\ i \in MatchedIdx /\ \A x \in MatchedIdx : i <= x
    /\ matching.word_indices[i + 1][1] > matching.start_pointer

\* i is the last matched segment and ends before the end of its verse
LastBoundary(i) ==
    /\ i \in MatchedIdx /\ \A x \in MatchedIdx : x <= i
    /\ \E e \in (matching.word_indices[i + 1][2] + 1)
                ..(get_chapter_reference(matching.results[i + 1].ref.surah).num_words - 1) :
          get_chapter_reference(matching.results[i + 1].ref.surah).words[e + 1].ayah
              = matching.results[i + 1].ref.to[1]

\* i is the first alignment accepted after a chapter transition or a global
\* re-anchor, and starts after the pointer that one set
TransitionGap(i) ==
    /\ i >= Len(special_results) /\ i < Len(special_results) + Len(matching.log)
    /\ Accepted(i - Len(special_results) + 1)
    /\ matching.log[i - Len(special_results) + 1].expected >= 0
    /\ StartOf(i - Len(special_results) + 1)
          > matching.log[i - Len(special_results) + 1].expected

\* C7 as stated: if segment i is in gap_segments, then either the preceding
\* matched segment in the same surah ended more than one word before segment
\* i starts, or segment i is the first or last matched segment with unmatched
\* words at the recitation boundary.
C7_GapSoundness ==
    Returned =>
        \A i \in matching.gap_segments :
            GapBefore(i) \/ FirstBoundary(i) \/ LastBoundary(i)

\* C7, amended: if segment i is in gap_segments, then words are missing
\* between it and the preceding or the following matched segment of the same
\* surah (both neighbours of a gap are flagged), or it is the first matched
\* segment and starts after the start pointer, or it is the last segment of
\* the recitation, matched, and ends before the end of its verse, or it is
\* the first alignment after a chapter transition or re-anchor and starts
\* after the expected pointer.
C7_GapSoundnessAmended ==
    Returned =>
        \A i \in matching.gap_segments :
            \/ GapBefore(i)
            \/ \E n \in MatchedIdx : MissingBetween(i, n)
            \/ FirstBoundary(i)
            \/ LastBoundary(i) /\ i = Len(matching.word_indices) - 1
            \/ TransitionGap(i)

\* a segment flagged only because words are missing between it and the
\* matched segment that follows
C7_Witness ==
    /\ Returned
    /\ \E i \in matching.gap_segments :
          /\ \E n \in MatchedIdx : MissingBetween(i, n)
          /\ ~GapBefore(i) /\ ~FirstBoundary(i) /\ ~LastBoundary(i) /\ ~TransitionGap(i)

\* C8: every index in gap_segments is the index of a segment that was
\* successfully aligned to a Qur'an word range: it has word indices and a
\* verse reference and was emitted by an accepted alignment; no special,
\* transition, merged-placeholder or failed segment is flagged, by the inline
\* transition-gap check or by the post-processing.
C8_GapsAreMatched ==
    Entered =>
        \A i \in matching.gap_segments :
            /\ i >= Len(special_results) /\ i < Len(matching.results)
            /\ matching.word_indices[i + 1] # None
            /\ matching.results[i + 1].ref.kind = "quran"
            /\ Accepted(i - Len(special_results) + 1)

\* a run with a special, a transition and a segment flagged by the inline
\* transition-gap check
C8_Witness ==
    /\ Returned
    /\ \E i \in matching.gap_segments : TransitionGap(i)
    /\ \E x \in 1..Len(matching.results) : matching.results[x].ref.kind = "special"
    /\ Cardinality(matching.gap_segments) < Len(matching.results)

\* iteration k emitted a Tahmeed transition
TahmeedAt(k) ==
    /\ matching.log[k].branch \in {"transition", "transition-mode", "chapter-end-transition"}
    /\ matching.results[Len(special_results) + k].ref.name = "Tahmeed"

\* the segment after the one of iteration k exists, is non-empty and matches Tahmeed
NextIsTahmeed(k) ==
    /\ matching.log[k].seg + 1 < Len(phoneme_texts)
    /\ Len(phoneme_texts[matching.log[k].seg + 2]) > 0
    /\ detect_transition_segment(phoneme_texts[matching.log[k].seg + 2], {"Tahmeed"}).name # ""

\* C9: whenever a Tahmeed transition is emitted for segment N, in whichever
\* branch it was detected, and segment N+1 exists, is non-empty and also
\* matches Tahmeed, then segment N+1 is emitted as an empty placeholder,
\* merged_into[N+1] = N, and segment N is reported with the combined audio
\* span (N's start to N+1's end).
C9_TahmeedMerge ==
    Returned =>
        \A k \in 1..Len(matching.log) :
            (TahmeedAt(k) /\ NextIsTahmeed(k)) =>
                /\ k + 1 <= Len(matching.log)
                /\ matching.log[k + 1].branch = "placeholder"
                /\ matching.results[Len(special_results) + k + 1] = EmptyResult
                /\ (matching.log[k].seg + 1) \in DOMAIN matching.merged_into
                /\ matching.merged_into[matching.log[k].seg + 1] = matching.log[k].seg
                /\ BuildSegment(matching.log[k].seg, vad_segments, matching.results,
                                phoneme_texts, matching.gap_segments,
                                matching.merged_into).end_time
                       = vad_segments[matching.log[k].seg + 2].end_time

\* C10: for every segment in the final report, potentially_undersegmented is
\* true if and only if (word_count >= 25 or ayah_span >= 2) and the segment
\* duration is >= 15 s.
C10_Undersegmented ==
    pc = "done" =>
        \A k \in 1..Len(segments) :
            segments[k].potentially_undersegmented
            <=> /\ \/ get_segment_word_stats(segments[k].matched_ref).word_count
                         >= UNDERSEG_MIN_WORDS
                   \/ get_segment_word_stats(segments[k].matched_ref).ayah_span
                         >= UNDERSEG_MIN_AYAH_SPAN
                /\ segments[k].end_time - segments[k].start_time >= UNDERSEG_MIN_DURATION

\* the indices (0-based, into vad_segments and the results) of the segments
\* that are displayed, in output order: segment n of the output is DisplayedIdx[n]
DisplayedIdx ==
    SelectSeq([k \in 1..Min2(Len(vad_segments), Len(matching.results)) |-> k - 1],
              LAMBDA idx : idx \notin DOMAIN matching.merged_into)

\* the score a segment is reported with differs from the score of its result
ScoreChanged(n) ==
    segments[n].match_score.num * matching.results[DisplayedIdx[n] + 1].score.den
        # matching.results[DisplayedIdx[n] + 1].score.num * segments[n].match_score.den

\* the result is a Qur'an word range that stops before the last word of its ayah
StopsInsideAyah(res) ==
    /\ res.ref.kind = "quran"
    /\ res.ref.to[2] < VerseWordCount(res.ref.surah, res.ref.to[1])

\* C11: the confidence penalty is applied to a segment if and only if it is the
\* last segment of the output and its matched Qur'an word range does not end
\* at the last word of its ayah; no other segment, and no special or
\* transition segment, is penalised.
C11_PenaltyLaw ==
    pc = "split" =>
        /\ Len(segments) = Len(DisplayedIdx)
        /\ \A n \in 1..Len(segments) :
              ScoreChanged(n) <=> /\ n = Len(segments)
                                  /\ StopsInsideAyah(matching.results[DisplayedIdx[n] + 1])

\* C12: whenever the interval list is empty, the entry point (full alignment,
\* resegment, retranscribe, realign) returns a message with an empty report
\* instead of raising, and no stage of the pipeline (ASR, specials, anchor,
\* alignment) has run.
C12_NoSpeechRecovered ==
    (Len(vad_in) = 0 /\ pc # "entry") => /\ pc = "returned"
                                        /\ outcome \in {"no_speech", "report"}
                                        /\ segments = << >> /\ matching = << >>

\* ------------------------------------------------------------------------
\* Properties of the anchor vote (checked under SpecAnchor)
\* ------------------------------------------------------------------------
\* the list given to the vote
VoteTexts == SubSeq(phoneme_texts, first_quran_idx + 1, Len(phoneme_texts))

\* some n-gram of the phonemes "input" is a key of the index
OccursInIndex(input) ==
    \E i \in 1..(Len(input) - anchor_in.ngram_size + 1) :
        SubSeq(input, i, i + anchor_in.ngram_size - 1) \in DOMAIN anchor_in.ngram_positions

C17_NonEmptySlots ==
    pc # "anchor" =>
        anchor_out = anchor_by_voting(SelectSeq(VoteTexts, LAMBDA t : Len(t) > 0),
                                      anchor_in, ANCHOR_SEGMENTS)

\* ------------------------------------------------------------------------
\* Per-segment failure (checked under Spec)
\* ------------------------------------------------------------------------
\* iteration k (1-based) ended in the failure branch
Failed(k) == matching.log[k].branch = "failure"

\* the report holds the interval of vad_segments[idx + 1] as a failed segment
SurfacedAsFailure(idx) ==
    \E n \in 1..Len(segments) :
        /\ segments[n].start_time = vad_segments[idx + 1].start_time
        /\ segments[n].end_time = vad_segments[idx + 1].end_time
        /\ segments[n].matched_ref = NoRef
        /\ segments[n].matched_text = ""
        /\ segments[n].match_score.num = 0
        /\ segments[n].error = "Low confidence (0%)"

\* C14: a segment for which the plain attempt, transition detection and both
\* retry tiers fail gets an empty result and the loop goes on: every later
\* segment gets its iteration, and in the report the failed segment has an
\* empty matched_ref, confidence 0 and the error "Low confidence (0%)".
C14_FailureNotFatal ==
    Entered =>
        /\ \A k \in 1..Len(matching.log) :
              Failed(k) => /\ matching.results[Len(special_results) + k] = EmptyResult
                           /\ matching.word_indices[Len(special_results) + k] = None
                           /\ matching.i >= k
        /\ Returned => Len(matching.log) = Len(phoneme_texts) - first_quran_idx
        /\ pc \in {"split", "done"} =>
              \A k \in 1..Len(matching.log) :
                  Failed(k) => SurfacedAsFailure(Len(special_results) + k - 1)

\* a finished run in which a failed segment is followed by an accepted one
C14_Witness ==
    /\ pc = "done"
    /\ \E k \in 1..(Len(matching.log) - 1) : Failed(k) /\ Accepted(k + 1)

\* ------------------------------------------------------------------------
\* The chapter cache under concurrent calls (checked under SpecCache)
\* ------------------------------------------------------------------------
\* C15: for each surah, under any interleaving of concurrent calls of
\* get_chapter_reference the on-demand build runs at most once, and all
\* callers, concurrent or later, receive the same object.
C15_OnceInitialisation ==
    \A s \in CacheSurahs :
        /\ builds[s] <= 1
        /\ Cardinality({r \in received : r[1] = s}) <= 1

\* ------------------------------------------------------------------------
\* The choice among end boundaries (checked under SpecDP)
\* ------------------------------------------------------------------------
\* the final row of the DP for the call in dp_in
DPLastRow ==
    DPRows(1, Len(dp_in.P), DPInitRow(Len(dp_in.R), dp_in.W), dp_in.P, dp_in.R, dp_in.W,
           IF dp_in.unit THEN 10 ELSE COST_SUBSTITUTION,
           IF dp_in.unit THEN 10 ELSE COST_DELETION,
           IF dp_in.unit THEN 10 ELSE COST_INSERTION)

\* the candidates of the loop over j: the end boundaries of finite cost
DPCandidates ==
    {c \in {DPCandidate(j, NoCandidate, DPLastRow, Len(dp_in.P), dp_in.W, dp_in.expected,
                        START_PRIOR_WEIGHT) : j \in 1..Len(dp_in.R)} : c.found}

\* c comes before d in the order (score, norm_dist, ref_len)
ComesBefore(c, d) ==
    \/ c.num * d.denom < d.num * c.denom
    \/ /\ c.num * d.denom = d.num * c.denom
       /\ \/ c.cost * d.denom < d.cost * c.denom
          \/ /\ c.cost * d.denom = d.cost * c.denom
             /\ c.best_j - c.j_start < d.best_j - d.j_start

\* C16: the DP returns the candidate end boundary with the lowest score; of
\* candidates with equal score the one with the lower norm_dist, and of those
\* the one with the lower ref_len.
C16_TieBreak ==
    (dp_pc = "done" /\ dp_out.found) =>
        /\ dp_out \in DPCandidates
        /\ \A c \in DPCandidates : ~ComesBefore(c, dp_out)

\* ------------------------------------------------------------------------
\* Properties of the batching (checked under SpecBatch)
\* ------------------------------------------------------------------------
\* total seconds of a batch, and its longest clip
RECURSIVE BatchSeconds(_, _)
BatchSeconds(batch, k) ==
    IF k > Len(batch) THEN 0 ELSE asr_in[batch[k] + 1].seconds + BatchSeconds(batch, k + 1)

BatchMax(batch) ==
    CHOOSE d \in {asr_in[batch[k] + 1].seconds : k \in 1..Len(batch)} :
        \A k \in 1..Len(batch) : asr_in[batch[k] + 1].seconds <= d

\* the two limits, for a whole batch
OverSeconds(batch) == BatchSeconds(batch, 1) > MAX_BATCH_SECONDS

OverWaste(batch) ==
    1000 * (Len(batch) * BatchMax(batch) - BatchSeconds(batch, 1))
        > MAX_PAD_WASTE * Len(batch) * BatchMax(batch)

\* the places <<batch, row>> that hold clip index i
PlacesOf(i) ==
    {pl \in (1..Len(asr_out.batches)) \X (1..MaxClips + 1) :
        pl[2] <= Len(asr_out.batches[pl[1]]) /\ asr_out.batches[pl[1]][pl[2]] = i}

\* C18: every clip index is in exactly one batch, and transcribe_batch returns
\* a list as long as its input whose entry i is the decoding of clip i, however
\* the clips were sorted by duration and grouped into batches.
C18_BatchingRoundTrip ==
    /\ asr_out.at \in {"infer", "done"} =>
          /\ \A i \in 0..(Len(asr_in) - 1) : Cardinality(PlacesOf(i)) = 1
          /\ \A k \in 1..Len(asr_out.batches) : \A j \in 1..Len(asr_out.batches[k]) :
                asr_out.batches[k][j] \in 0..(Len(asr_in) - 1)
    /\ asr_out.at = "done" =>
          /\ Len(asr_out.results) = Len(asr_in)
          /\ \A i \in 1..Len(asr_in) : asr_out.results[i] = Decode(asr_in[i])

\* a finished call on clips that were not in order of duration and went to
\* two batches
C18_Witness ==
    /\ asr_out.at = "done"
    /\ Len(asr_out.batches) = 2
    /\ asr_in[1].seconds > asr_in[Len(asr_in)].seconds
    /\ asr_out.batches[1][1] # 0

\* C19: every batch of more than MIN_BATCH_SIZE clips has at most
\* MAX_BATCH_SECONDS seconds of audio and a padding waste
\* 1 - (sum of durations) / (n * max duration) of at most MAX_PAD_WASTE; only a
\* batch of at most MIN_BATCH_SIZE clips can exceed a limit.
C19_BatchLimits ==
    asr_out.at \in {"infer", "done"} =>
        \A k \in 1..Len(asr_out.batches) :
            (OverSeconds(asr_out.batches[k]) \/ OverWaste(asr_out.batches[k]))
                => Len(asr_out.batches[k]) <= MIN_BATCH_SIZE

\* a batch of more than MIN_BATCH_SIZE clips of different lengths, near the
\* seconds limit
C19_Witness ==
    /\ asr_out.at = "done"
    /\ \E k \in 1..Len(asr_out.batches) :
          /\ Len(asr_out.batches[k]) > MIN_BATCH_SIZE
          /\ BatchSeconds(asr_out.batches[k], 1) > MAX_BATCH_SECONDS - 70
          /\ BatchMax(asr_out.batches[k]) * Len(asr_out.batches[k]) > BatchSeconds(asr_out.batches[k], 1)

\* C20: every batch except the last one contains at least MIN_BATCH_SIZE
\* clips, also when adding a clip exceeded the seconds or the waste limit.
C20_MinBatchSize ==
    asr_out.at \in {"infer", "done"} =>
        \A k \in 1..(Len(asr_out.batches) - 1) : Len(asr_out.batches[k]) >= MIN_BATCH_SIZE

\* a first batch of exactly MIN_BATCH_SIZE clips that exceeds the waste limit,
\* followed by another batch
C20_Witness ==
    /\ asr_out.at = "done"
    /\ Len(asr_out.batches) = 2
    /\ Len(asr_out.batches[1]) = MIN_BATCH_SIZE
    /\ OverWaste(asr_out.batches[1])

\* ------------------------------------------------------------------------
\* Properties of the CTC decoder (checked under SpecCtc)
\* ------------------------------------------------------------------------
\* (a) one token of every run of equal consecutive tokens
RECURSIVE CollapseRuns(_, _)
CollapseRuns(toks, k) ==
    IF k > Len(toks) THEN << >>
    ELSE IF k > 1 /\ toks[k] = toks[k - 1] THEN CollapseRuns(toks, k + 1)
    ELSE << toks[k] >> \o CollapseRuns(toks, k + 1)

\* (b), (c) the sequence without the token tok
RECURSIVE Without(_, _, _)
Without(toks, tok, k) ==
    IF k > Len(toks) THEN << >>
    ELSE IF toks[k] = tok THEN Without(toks, tok, k + 1)
    ELSE << toks[k] >> \o Without(toks, tok, k + 1)

InUnitInterval(score) == score.den > 0 /\ 0 <= score.num /\ score.num <= score.den

\* C23: every emitted segment (initial or inter-chapter special, transition,
\* matched range, fused match, penalised last segment, failure placeholder)
\* has a confidence in [0, 1].
C23_ConfidenceBounds ==
    /\ \A k \in 1..Len(special_results) : InUnitInterval(special_results[k].score)
    /\ pc \in {"matching", "build", "split", "done"} =>
          \A k \in 1..Len(matching.results) : InUnitInterval(matching.results[k].score)
    /\ \A k \in 1..Len(segments) : InUnitInterval(segments[k].match_score)

\* a finished report with a special, a match below 1.0 and a last segment
\* whose score was lowered by the penalty
C23_Witness ==
    /\ pc = "done"
    /\ \E k \in 1..Len(matching.results) :
          matching.results[k].ref.kind = "special" /\ InUnitInterval(matching.results[k].score)
    /\ \E k \in 1..Len(matching.results) :
          /\ matching.results[k].ref.kind = "quran"
          /\ ScoreLess(matching.results[k].score, Score(1, 1))
    /\ ScoreChanged(Len(segments))
    /\ InUnitInterval(segments[Len(segments)].match_score)

\* ------------------------------------------------------------------------
\* Properties of the substitution costs (checked under SpecSub)
\* ------------------------------------------------------------------------
\* the entries of the file, outside _meta, that name the pair in either order
EntriesFor(p, r) ==
    {k \in 1..Len(sub_raw) : /\ sub_raw[k].section # "_meta"
                             /\ {sub_raw[k].a, sub_raw[k].b} = {p, r}}

\* C24: sub_cost(a, b) is 0 when a = b, also when the table has an entry for
\* the pair; otherwise the table value when the pair is present, otherwise
\* the default; and sub_cost(a, b) = sub_cost(b, a) whatever the order and
\* the duplication of the entries in the file.
C24_SubCost ==
    sub_costs.at = "loaded" =>
        \A p \in SubPhonemes : \A r \in SubPhonemes :
            LET c == SubCost(sub_costs.table, p, r, COST_SUBSTITUTION)
            IN  /\ p = r => c = 0
                /\ p # r /\ EntriesFor(p, r) # {} =>
                      c = sub_raw[SetMax(EntriesFor(p, r))].cost
                /\ p # r /\ EntriesFor(p, r) = {} => c = COST_SUBSTITUTION
                /\ c = SubCost(sub_costs.table, r, p, COST_SUBSTITUTION)

\* a loaded file that names one pair twice, in both orders and with two
\* costs
C24_Witness ==
    /\ sub_costs.at = "loaded"
    /\ Len(sub_raw) = 2
    /\ sub_raw[1] = [section |-> "pairs", a |-> "a", b |-> "b", cost |-> 3]
    /\ sub_raw[2] = [section |-> "pairs", a |-> "b", b |-> "a", cost |-> 7]
    /\ SubCost(sub_costs.table, "a", "b", COST_SUBSTITUTION) = 7

\* ------------------------------------------------------------------------
\* Order of the retry tiers and the transition test (checked under Spec)
\* ------------------------------------------------------------------------
\* the retry attempt of mode on the segment of iteration k, as it was or
\* would have been made
RetryOf(k, mode) ==
    Align(phoneme_texts[matching.log[k].seg + 1],
          get_chapter_reference(matching.log[k].chapter), matching.log[k].ptr, mode)

\* the transition the segment of iteration k is detected as
TransitionOf(k) ==
    detect_transition_segment(phoneme_texts[matching.log[k].seg + 1], AllTransitions)

\* iterations that ended below the plain failure, lines 343-440.  The two
\* formulas look at the iteration that has just ended: every iteration is the
\* last one of the log in the state it leads to.
AfterPlainFailure(k) == matching.log[k].branch \in {"transition", "tier1", "tier2", "failure"}

\* C25 as claimed: after a plain failure tier 1 and tier 2 come first and a
\* success in either is accepted; transition detection is tried only if both
\* fail, so a segment a retry tier would match is never emitted as a
\* transition.
C25_TiersBeforeTransition ==
    pc = "matching" =>
        \A k \in {Len(matching.log)} \ {0} :
            AfterPlainFailure(k) =>
                /\ RetryOf(k, "tier1").ok => matching.log[k].branch = "tier1"
                /\ ~RetryOf(k, "tier1").ok /\ RetryOf(k, "tier2").ok
                      => matching.log[k].branch = "tier2"
                /\ matching.log[k].branch = "transition" =>
                      ~RetryOf(k, "tier1").ok /\ ~RetryOf(k, "tier2").ok

\* C25 amended: after a plain failure the transition test comes first and a
\* detected transition is emitted without any retry; only a segment that is
\* no transition goes to tier 1 and then tier 2, a success in either is
\* accepted, and it is a failure when both fail.
C25_TransitionBeforeTiers ==
    pc = "matching" =>
        \A k \in {Len(matching.log)} \ {0} :
            AfterPlainFailure(k) =>
                /\ matching.log[k].branch = "transition" <=> TransitionOf(k).name # ""
                /\ matching.log[k].branch = "tier1"
                      <=> TransitionOf(k).name = "" /\ RetryOf(k, "tier1").ok
                /\ matching.log[k].branch = "tier2"
                      <=> /\ TransitionOf(k).name = ""
                          /\ ~RetryOf(k, "tier1").ok /\ RetryOf(k, "tier2").ok
                /\ matching.log[k].branch = "transition" =>
                      /\ matching.results[Len(special_results) + k].ref.name = TransitionOf(k).name
                      /\ matching.word_indices[Len(special_results) + k] = None

\* a run in which a segment that tier 2 matches was emitted as a transition,
\* and another one was accepted by a retry tier
C25_Witness ==
    /\ pc = "done"
    /\ \E k \in 1..Len(matching.log) :
          matching.log[k].branch = "transition" /\ RetryOf(k, "tier2").ok
    /\ \E k \in 1..Len(matching.log) : matching.log[k].branch \in {"tier1", "tier2"}

\* ------------------------------------------------------------------------
\* The end of a chapter (checked under Spec)
\* ------------------------------------------------------------------------
\* iteration k accepted an alignment
MatchedAt(k) == matching.log[k].branch \in {"plain", "fused", "tier1", "tier2"}

\* the iteration began with the pointer at the end of the chapter it was
\* matched against
AtChapterEnd(k) ==
    matching.log[k].ptr >= get_chapter_reference(matching.log[k].chapter).num_words

AlignedAt(k) ==
    matching.log[k].branch \in {"plain", "fused", "tier1", "tier2", "failure", "transition"}

BoundaryEvents == {q \in 1..Len(matching.events) : matching.events[q].kind = "boundary"}

\* the Basmala-fused attempts made on the segment of iteration k
FusedAttemptsAt(k) ==
    {q \in 1..Len(matching.events) :
        matching.events[q].kind = "fused" /\ matching.events[q].seg = matching.log[k].seg}

\* no segment was aligned between the boundary event q and iteration k
FirstAlignedAfter(k, q) ==
    \A j \in 1..(k - 1) : AlignedAt(j) => matching.log[j].seg < matching.events[q].seg

FusedIsBetter ==
    LET a == dp_in.alignment
        b == dp_in.basmala_alignment
    IN  /\ b.ok /\ b.basmala_consumed
        /\ IF a.ok THEN b.edit_cost * a.denom < a.edit_cost * b.denom
           ELSE b.edit_cost < 10 * b.denom

\* C28: the Basmala-fused result is accepted if and only if it consumed the
\* Basmala prefix and its confidence is strictly greater than the plain
\* attempt's (0 when the plain attempt failed).  On acceptance the pointer is
\* the fused match's end word + 1 and the fused match is the segment's result;
\* otherwise, and so on equal confidence and when the fused attempt returned
\* nothing (a match of the prefix alone), the plain result is kept and the
\* pointer stays.
C28_FusedAcceptance ==
    pc = "fused-decided" =>
        LET b == dp_in.basmala_alignment
        IN  /\ dp_out.done <=> FusedIsBetter
            /\ dp_out.done =>
                 /\ matching.pointer = b.end_word_idx + 1
                 /\ matching.word_indices = << <<b.start_word_idx, b.end_word_idx>> >>
                 /\ Len(matching.results) = 1
                 /\ matching.results[1].score.num * 10 * b.denom
                        = (10 * b.denom - b.edit_cost) * matching.results[1].score.den
            /\ ~dp_out.done =>
                 /\ dp_out.alignment = dp_in.alignment
                 /\ matching.pointer = 0
                 /\ matching.results = << >>

\* both attempts matched with the same confidence, the fused one across the
\* Basmala prefix, and the plain result was kept
C28_Witness ==
    /\ pc = "fused-decided"
    /\ dp_in.alignment.ok /\ dp_in.basmala_alignment.ok
    /\ dp_in.basmala_alignment.basmala_consumed
    /\ dp_in.alignment.denom # dp_in.basmala_alignment.denom
    /\ dp_in.alignment.edit_cost * dp_in.basmala_alignment.denom
           = dp_in.basmala_alignment.edit_cost * dp_in.alignment.denom
    /\ ~dp_out.done
    /\ dp_out.alignment = dp_in.alignment

\* ------------------------------------------------------------------------
\* C29 (checked under Spec)
\* ------------------------------------------------------------------------
\* C29: at every segment boundary of the matching loop the pointer lies
\* between 0 and the number of words of the chapter that is loaded, whatever
\* moved it: an accepted alignment, a chapter change, the surah-2 fallback or
\* a global re-anchor.
C29_PointerInChapter ==
    pc = "matching" =>
        /\ 0 <= matching.pointer
        /\ matching.pointer <= get_chapter_reference(matching.chapter_ref).num_words

\* a global re-anchor has changed the chapter and set the pointer, and a later
\* segment has advanced the pointer to the end of the new chapter
C29_Witness ==
    /\ pc = "matching"
    /\ matching.jumps > 0
    /\ matching.chapter_ref # surah
    /\ matching.log # << >>
    /\ matching.log[Len(matching.log)].branch \in {"plain", "tier1", "tier2"}
    /\ matching.pointer = get_chapter_reference(matching.chapter_ref).num_words

\* ------------------------------------------------------------------------
\* C30 (checked under Spec)
\* ------------------------------------------------------------------------
\* the failure of iteration k brought the counter to MAX_CONSECUTIVE_FAILURES
ReachedLimit(k) == Failed(k) /\ matching.log[k].failures + 1 >= MAX_CONSECUTIVE_FAILURES

\* the segments strictly after the segment of iteration k
SegmentsAfter(k) == SubSeq(phoneme_texts, matching.log[k].seg + 2, Len(phoneme_texts))

\* C30: when a failure brings consecutive_failures to
\* MAX_CONSECUTIVE_FAILURES, a global re-anchor is run over the segments
\* strictly after the failed one (it can move the pointer only to a verse
\* those segments vote for) and the counter is reset to 0, also when the
\* re-anchor finds nothing or no segment remains; every such failure counts as
\* a re-anchor, a failure below the limit only adds 1 to the counter, and so
\* the counter is below the limit at every segment boundary.
C30_ReanchorResetsCounter ==
    pc = "matching" =>
        /\ matching.consecutive_failures < MAX_CONSECUTIVE_FAILURES
        /\ matching.consec_reanchors = Cardinality({k \in 1..Len(matching.log) : ReachedLimit(k)})
        /\ \A k \in {Len(matching.log)} \ {0} :
              /\ ReachedLimit(k) =>
                    /\ matching.consecutive_failures = 0
                    /\ matching.jumps \in {matching.log[k].jumps, matching.log[k].jumps + 1}
                    /\ matching.jumps > matching.log[k].jumps =>
                          /\ CombinedLen(SegmentsAfter(k), 1, ANCHOR_SEGMENTS) >= NGRAM_SIZE
                          /\ \E t \in ngram_targets :
                                /\ matching.detected_surah = t[1]
                                /\ matching.pointer =
                                       verse_to_word_index(get_chapter_reference(matching.chapter_ref), t[2])
                    /\ matching.jumps = matching.log[k].jumps =>
                          /\ matching.pointer = matching.log[k].ptr
                          /\ matching.chapter_ref = matching.log[k].chapter
              /\ (Failed(k) /\ ~ReachedLimit(k)) =>
                    /\ matching.consecutive_failures = matching.log[k].failures + 1
                    /\ matching.jumps = matching.log[k].jumps
                    /\ matching.pointer = matching.log[k].ptr

\* the limit was reached by a failure that is followed by further segments,
\* and the re-anchor over them moved the pointer
C30_Witness ==
    /\ pc = "matching"
    /\ matching.log # << >>
    /\ ReachedLimit(Len(matching.log))
    /\ SegmentsAfter(Len(matching.log)) # << >>
    /\ matching.jumps = matching.log[Len(matching.log)].jumps + 1
    /\ matching.consecutive_failures = 0

\* ------------------------------------------------------------------------
\* C31 (checked under Spec)
\* ------------------------------------------------------------------------
\* the iteration that leads to the next state accepted an alignment
AcceptedNow ==
    matching'.log[Len(matching'.log)].branch \in {"plain", "fused", "tier1", "tier2"}

\* what the transition-gap check adds for the iteration that leads to the
\* next state: the index of its own result, when an expectation was pending
\* at the acceptance and the match starts after it
FlaggedNow ==
    LET k == Len(matching'.log)
        idx == Len(special_results) + k
    IN  IF /\ matching'.log[k].expected >= 0
           /\ matching'.word_indices[idx][1] > matching'.log[k].expected
        THEN {idx - 1} ELSE {}

\* C31: the transition-gap check acts on the first alignment accepted after
\* transition_expected_pointer was set: that iteration adds its own result
\* index to gap_segments iff its start word exceeds the expected pointer, and
\* nothing else; after every accepted alignment the expected pointer is -1;
\* an iteration that accepts nothing leaves gap_segments alone.
C31_GapCheckOnce ==
    [][(pc = "matching" /\ pc' = "matching") =>
          IF AcceptedNow
          THEN /\ matching'.transition_expected_pointer = 0 - 1
               /\ matching'.gap_segments = matching.gap_segments \cup FlaggedNow
          ELSE matching'.gap_segments = matching.gap_segments]_vars

\* two alignments were accepted after one expectation was set: the first
\* started past the expected pointer and was flagged, the second was not
C31_Witness ==
    /\ pc = "matching"
    /\ Len(matching.log) >= 2
    /\ LET k == Len(matching.log)
           idx == Len(special_results) + k
       IN  /\ Accepted(k) /\ Accepted(k - 1)
           /\ matching.log[k - 1].expected >= 0
           /\ matching.word_indices[idx - 1][1] > matching.log[k - 1].expected
           /\ matching.log[k].expected < 0
           /\ matching.gap_segments = {idx - 2}

\* ------------------------------------------------------------------------
\* C32 (checked under Spec)
\* ------------------------------------------------------------------------
\* the times Al-Fatiha's chapter end was handled
FatihaEnds == {q \in 1..Len(matching.events) : matching.events[q].kind = "fatiha-end"}

\* iteration k accepted the first alignment since Al-Fatiha's chapter end q,
\* in the chapter and from the pointer chosen there
FirstMatchAfterFatiha(k, q) ==
    /\ Accepted(k)
    /\ matching.events[q].seg <= matching.log[k].seg
    /\ matching.log[k].jumps = matching.events[q].jumps
    /\ \A j \in 1..(k - 1) : matching.log[j].seg >= matching.events[q].seg => ~Accepted(j)

LoggedNow == matching'.log[Len(matching'.log)]

\* the iteration left transition mode and its re-anchor moved nothing
ExitWithoutVotes ==
    /\ matching.transition_mode
    /\ LoggedNow.branch \notin {"queued", "placeholder", "transition-mode"}
    /\ LoggedNow.jumps = matching.jumps

\* the iteration failed, reached the failure limit and its re-anchor moved nothing
LimitWithoutVotes ==
    /\ LoggedNow.branch = "failure"
    /\ LoggedNow.failures + 1 >= MAX_CONSECUTIVE_FAILURES
    /\ matching'.jumps = LoggedNow.jumps

\* C33: a global re-anchor made in the middle of the run (on leaving
\* transition mode, or after MAX_CONSECUTIVE_FAILURES failures) that finds no
\* votes leaves detected_surah, the loaded chapter, the pointer and a pending
\* expected pointer as they were and resets consecutive_failures; the run
\* goes on: the segment is aligned (on leaving transition mode) or the next
\* iteration follows (after the failures).
C33_NoVotesNoChange ==
    [][(pc = "matching" /\ pc' = "matching") =>
          /\ ExitWithoutVotes =>
                /\ LoggedNow.detected = matching.detected_surah
                /\ LoggedNow.chapter = matching.chapter_ref
                /\ LoggedNow.ptr = matching.pointer
                /\ LoggedNow.expected = matching.transition_expected_pointer
                /\ LoggedNow.failures = 0
                /\ ~matching'.transition_mode
                /\ matching'.i = matching.i + 1
          /\ LimitWithoutVotes =>
                /\ matching'.detected_surah = LoggedNow.detected
                /\ matching'.chapter_ref = LoggedNow.chapter
                /\ matching'.pointer = LoggedNow.ptr
                /\ matching'.transition_expected_pointer = LoggedNow.expected
                /\ matching'.consecutive_failures = 0
                /\ matching'.i = matching.i + 1]_vars

\* transition mode was left at the last segment with an expected pointer
\* pending and no jump, the segment then failed, and the expectation is
\* still pending
C33_Witness ==
    /\ pc = "matching"
    /\ Len(matching.log) >= 2
    /\ LET k == Len(matching.log)
       IN  /\ matching.log[k - 1].branch \in {"chapter-end-transition", "transition-mode"}
           /\ matching.log[k].branch = "failure"
           /\ matching.log[k].jumps = matching.log[k - 1].jumps
           /\ matching.log[k].expected >= 0
           /\ matching.transition_expected_pointer = matching.log[k].expected
           /\ ~matching.transition_mode

\* ------------------------------------------------------------------------
\* C34 (checked under Spec)
\* ------------------------------------------------------------------------
\* C34: at every segment boundary detected_surah is the surah of the loaded
\* chapter reference and lies in 1..114, whichever path changed them
\* (sequential chapter end, chapter-end transition, Al-Fatiha re-anchor and
\* fallback, global re-anchors); the end of surah 114 loads no chapter 115.
C34_SurahIsLoadedChapter ==
    pc = "matching" =>
        /\ matching.detected_surah = get_chapter_reference(matching.chapter_ref).surah
        /\ matching.detected_surah \in 1..114

\* a segment failed at the end of surah 114 and surah 114 is still loaded
C34_Witness ==
    /\ pc = "matching"
    /\ matching.log # << >>
    /\ matching.log[Len(matching.log)].branch \in {"failure", "transition"}
    /\ matching.log[Len(matching.log)].chapter = 114
    /\ matching.log[Len(matching.log)].ptr = get_chapter_reference(114).num_words
    /\ matching.chapter_ref = 114 /\ matching.detected_surah = 114

\* ------------------------------------------------------------------------
\* C35 (checked under Spec)
\* ------------------------------------------------------------------------
\* the iteration that produced the result with (0-based) index idx
IterationOf(idx) == idx - Len(special_results) + 1

\* the results that have an interval (zip(vad_segments, match_results))
Zipped == 0..(Min2(Len(vad_segments), Len(matching.results)) - 1)

\* C35: every entry of merged_into maps a segment index k to k - 1; result
\* k - 1 is a Tahmeed transition, and result k, once its iteration has run
\* (it has when the loop returns), is the empty placeholder of the merge, not
\* a matched, special or failed segment; the assembled report leaves out
\* exactly the results named by merged_into.
C35_MergedArePlaceholders ==
    Entered =>
        /\ \A k \in DOMAIN matching.merged_into :
              /\ matching.merged_into[k] = k - 1
              /\ IterationOf(k - 1) \in 1..Len(matching.log)
              /\ matching.log[IterationOf(k - 1)].branch \in {"transition-mode", "transition"}
              /\ matching.results[k].ref = SpecialRef("Tahmeed")
              /\ Returned => IterationOf(k) \in 1..Len(matching.log)
              /\ IterationOf(k) \in 1..Len(matching.log) =>
                    /\ matching.log[IterationOf(k)].branch = "placeholder"
                    /\ matching.results[k + 1] = EmptyResult
        /\ pc = "split" =>
              Len(segments) = Cardinality(Zipped \ DOMAIN matching.merged_into)

\* a report was assembled from a run that merged a segment into a Tahmeed
C35_Witness ==
    /\ pc = "split"
    /\ \E k \in DOMAIN matching.merged_into :
          /\ k \in Zipped
          /\ matching.results[k + 1] = EmptyResult
          /\ Len(segments) < Len(matching.results)

\* ------------------------------------------------------------------------
\* C36, C37 (checked under SpecGpu)
\* ------------------------------------------------------------------------
\* C36: a call of load_segmenter returns a None model only when loading
\* itself failed, whatever invalidate_segmenter_cache does in another thread,
\* and so VAD falls back to one segment for the whole audio only then.
C36_LoadNeverNone ==
    \A t \in Threads :
        /\ gpu_threads[t].ret = "None" => gpu_threads[t].failed
        /\ gpu_threads[t].fallback => gpu_threads[t].failed

\* thread t is executing the body of the decorated function
InBody(t) ==
    gpu_threads[t].at \in {"ls_check", "ls_read", "ls_lock", "ls_recheck", "ls_load", "move", "vad", "infer"}

\* thread t is invalidating the cached models
Invalidating(t) == gpu_threads[t].at \in {"inv_model", "inv_loaded"}

\* thread t is at ensure_models_on_gpu and nothing keeps it from moving the
\* cached model now
AbleToMove(t) ==
    /\ gpu_threads[t].at = "move"
    /\ ~gpu_threads[t].forced_cpu /\ gpu.cuda
    /\ CanAcquire(t)

\* C37: while a thread executes the body of a gpu_with_fallback function, no
\* other thread is invalidating the cached models or able to move them to
\* another device, on every path of the decorator, the user-forced CPU path
\* included.
C37_NoChangeDuringBody ==
    \A t \in Threads :
        InBody(t) => \A u \in Threads \ {t} : ~Invalidating(u) /\ ~AbleToMove(u)

\* ------------------------------------------------------------------------
\* C38: the run returned for a surah is a range of consecutive voted ayahs
\* inside a heaviest run of consecutive ayahs; its first and its last ayah
\* weigh at least ANCHOR_RUN_TRIM_RATIO times the heaviest ayah of that
\* untrimmed run, every heaviest ayah is kept, the run is not empty, and the
\* returned weight is the sum of the weights of the ayahs kept.
\* ------------------------------------------------------------------------
\* the run of consecutive voted ayahs around ayah a
RunAround(a) ==
    {b \in DOMAIN anchor_in : \A x \in (IF a <= b THEN a..b ELSE b..a) : x \in DOMAIN anchor_in}

SetWeight(ayahs) == RunWeight(anchor_in, SetMin(ayahs), SetMax(ayahs))

C38_TrimmedRun ==
    (pc = "run-found" /\ DOMAIN anchor_in # {}) =>
        LET best_start == anchor_out[1]
            best_end   == anchor_out[2]
            untrimmed  == RunAround(best_start)
            max_w      == SetMax({anchor_in[a] : a \in untrimmed})
        IN  /\ best_start <= best_end
            /\ \A a \in best_start..best_end : a \in DOMAIN anchor_in
            /\ \A a \in DOMAIN anchor_in : SetWeight(RunAround(a)) <= SetWeight(untrimmed)
            /\ 1000 * anchor_in[best_start] >= ANCHOR_RUN_TRIM_RATIO * max_w
            /\ 1000 * anchor_in[best_end] >= ANCHOR_RUN_TRIM_RATIO * max_w
            /\ \A a \in untrimmed : anchor_in[a] = max_w => a \in best_start..best_end
            /\ anchor_out[3] = RunWeight(anchor_in, best_start, best_end)

\* a run that lost two ayahs at the start and one at the end
C38_Witness ==
    /\ pc = "run-found"
    /\ DOMAIN anchor_in = 1..MaxAyah
    /\ anchor_out[1] = 3
    /\ anchor_out[2] = MaxAyah - 1
    /\ anchor_out[3] < RunWeight(anchor_in, 1, MaxAyah)

\* ------------------------------------------------------------------------
\* C39: a segment accepted by retry tier 2 has a confidence of at least
\* 1 - MAX_EDIT_DISTANCE_RELAXED and below 1 - MAX_EDIT_DISTANCE, and tier 1,
\* called with the same window on the same pointer, found no alignment.
\* (The iteration that has just ended is the last one of the log.)
\* ------------------------------------------------------------------------
Tier2Iterations == {k \in {Len(matching.log)} \ {0} : matching.log[k].branch = "tier2"}

Tier2Score(k) == matching.results[Len(special_results) + k].score

C39_Tier2Confidence ==
    pc = "matching" =>
        \A k \in Tier2Iterations :
            /\ 1000 * Tier2Score(k).num >= (1000 - MAX_EDIT_DISTANCE_RELAXED) * Tier2Score(k).den
            /\ 1000 * Tier2Score(k).num < (1000 - MAX_EDIT_DISTANCE) * Tier2Score(k).den
            /\ ~RetryOf(k, "tier1").ok
            /\ ATTEMPTS["tier1"].lookback = ATTEMPTS["tier2"].lookback
            /\ ATTEMPTS["tier1"].lookahead = ATTEMPTS["tier2"].lookahead

\* a segment accepted by tier 2 with a confidence strictly between the bounds
C39_Witness ==
    /\ pc = "matching"
    /\ \E k \in Tier2Iterations :
          /\ 1000 * Tier2Score(k).num > (1000 - MAX_EDIT_DISTANCE_RELAXED) * Tier2Score(k).den
          /\ matching.results[Len(special_results) + k].text = "verse"

\* ------------------------------------------------------------------------
\* C40 (checked under SpecQueue)
\* ------------------------------------------------------------------------
\* the canonical phonemes of a special result
SpecialPhonemes(result) ==
    IF result.ref.name = "Isti'adha" THEN ISTIADHA_PHONEMES
    ELSE IF result.ref.name = "Basmala" THEN BASMALA_PHONEMES
    ELSE COMBINED_PHONEMES

\* the j-th queued special of the locals m is the special that segment
\* m.i + j - 1 of the loop was detected as: the segment exists and lies
\* within MAX_SPECIAL_EDIT_DISTANCE of the special, at the score queued
QueuedForSegment(m, j) ==
    LET idx == first_quran_idx + m.i + j
    IN  /\ idx <= Len(phoneme_texts)
        /\ m.pending_specials[j].ref.kind = "special"
        /\ LET d == EditDistance(phoneme_texts[idx], SpecialPhonemes(m.pending_specials[j]))
           IN  /\ DistWithin(d, MAX_SPECIAL_EDIT_DISTANCE)
               /\ m.pending_specials[j] = SpecialResult(m.pending_specials[j].ref.name, d)

\* C40: skip_count is the number of queued specials; every queued special
\* belongs to an existing segment, the j-th to the j-th segment that follows;
\* an iteration that finds specials queued appends the first of them as the
\* result of its segment, removes it from the queue and does nothing else.
C40_QueuedSpecials ==
    [][(pc = "matching" /\ pc' = "matching") =>
          /\ matching'.skip_count = Len(matching'.pending_specials)
          /\ \A j \in 1..Len(matching'.pending_specials) : QueuedForSegment(matching', j)
          /\ matching.skip_count > 0 =>
                /\ matching.pending_specials # << >>
                /\ matching'.results = Append(matching.results, matching.pending_specials[1])
                /\ matching'.word_indices = Append(matching.word_indices, None)
                /\ matching'.pending_specials = Tail(matching.pending_specials)
                /\ matching'.log[Len(matching'.log)].branch = "queued"
                /\ matching' = [matching EXCEPT !.results = matching'.results,
                                                !.word_indices = matching'.word_indices,
                                                !.pending_specials = matching'.pending_specials,
                                                !.skip_count = matching'.skip_count,
                                                !.log = matching'.log,
                                                !.i = @ + 1]]_vars

\* Amin after Al-Fatiha queued an Isti'adha and a Basmala, and both have been
\* emitted, in this order, for the two segments that follow
C40_Witness ==
    /\ pc = "matching"
    /\ Len(matching.log) >= 3
    /\ LET k == Len(matching.log)
       IN  /\ matching.log[k - 2].branch = "amin"
           /\ matching.log[k - 1].branch = "queued"
           /\ matching.log[k].branch = "queued"
           /\ matching.results[k - 1].ref.name = "Isti'adha"
           /\ matching.results[k].ref.name = "Basmala"
           /\ matching.skip_count = 0

====
